---- MODULE Spec2Model ----
\* Model of examples/data-client.js: the OAuth token manager
\* (class iRacingAuthManager) and the data client that uses it
\* (class iRacingDataClient).
\*
\* Scheduling: JavaScript runs one callback at a time.  A call runs
\* synchronously up to its first network await; the response callback and
\* the promise continuations chained to it run to the next network await (or
\* to the end of the call) before any other response or timer callback is
\* served.
\* Each action below is one such run.  Date.now() is the variable now, which
\* only the Tick action advances.
EXTENDS Integers, FiniteSets, Sequences, TLC

\* ---------------------------------------------------------------- bounds
MaxTicks == 4

\* ------------------------------------------------------------- constants
refreshBuffer == 300000

TickMs == refreshBuffer \div 2
StartMs == 2 * refreshBuffer
MaxNow == StartMs + MaxTicks * TickMs

Callers == {"A", "B"}

\* ------------------------------------------------------ JavaScript values
\* Strings: null and undefined are two reserved strings, "" is the empty
\* string; all three are falsy.
Null == "<null>"
Undefined == "<undefined>"
Falsy(s) == s \in {Null, Undefined, ""}

\* Numbers are tagged so that null, undefined and NaN stay distinct from
\* every integer.
Num(n) == [k |-> "num", v |-> n]
NaN == [k |-> "nan", v |-> 0]
NullNum == [k |-> "null", v |-> 0]
UndefinedNum == [k |-> "undefined", v |-> 0]
FalsyNum(x) == x.k # "num" \/ x.v = 0

\* x * n and n + x of JavaScript for an integer n
Times(x, n) ==
  CASE x.k = "num" -> Num(x.v * n)
    [] x.k = "null" -> Num(0)
    [] OTHER -> NaN
Plus(n, x) ==
  CASE x.k = "num" -> Num(n + x.v)
    [] x.k = "null" -> Num(n)
    [] OTHER -> NaN

\* ------------------------------------------- token endpoint's responses
ExpiresInSeconds == {150, 300, 600}
IssuedTokens == {<<"at1", "rt1">>, <<"at2", "rt2">>}

Response(net, status, json, at, rt, ei) ==
  [net |-> net, status |-> status, json |-> json,
   access_token |-> at, refresh_token |-> rt, expires_in |-> ei]

NoResponse == Response("none", 0, "none", Undefined, Undefined, UndefinedNum)

\* 2xx bodies of the documented shape
WellFormedResponses ==
  {Response("ok", 200, "object", p[1], p[2], Num(e)) :
     p \in IssuedTokens, e \in ExpiresInSeconds}

\* 2xx bodies that parse as JSON but lack fields of the token shape
MalformedResponses ==
  {Response("ok", 200, "object", Undefined, Undefined, UndefinedNum),
   Response("ok", 200, "object", "at1", Undefined, Num(600)),
   Response("ok", 200, "object", "at1", "rt1", UndefinedNum),
   Response("ok", 200, "null", Undefined, Undefined, UndefinedNum)}

\* error statuses, unparseable bodies, transport failure
FailureResponses ==
  {Response("ok", 400, "object", Undefined, Undefined, UndefinedNum),
   Response("ok", 500, "invalid", Undefined, Undefined, UndefinedNum),
   Response("ok", 200, "invalid", Undefined, Undefined, UndefinedNum),
   Response("error", 0, "none", Undefined, Undefined, UndefinedNum)}

TokenResponses == WellFormedResponses \cup MalformedResponses \cup FailureResponses

\* the responses to the refreshes that request() triggers: a token that
\* outlives the refresh buffer, one that does not, 200 responses with the
\* body {} and with a body without refresh_token, and a rejection
RequestTokenResponses ==
  {Response("ok", 200, "object", "at2", "rt2", Num(600)),
   Response("ok", 200, "object", "at2", "rt2", Num(150)),
   Response("ok", 200, "object", Undefined, Undefined, UndefinedNum),
   Response("ok", 200, "object", "at2", Undefined, Num(600)),
   Response("ok", 400, "object", Undefined, Undefined, UndefinedNum)}

\* -------------------------------------------- data endpoint's responses
Endpoints == {"car/get", "car/get?car_id=45"}
Payloads == {"p1", "p2"}

\* request(endpoint, maxRetries = 3) and cachedRequest(endpoint, ttl = 300000)
DefaultMaxRetries == 3
DefaultTtl == 300000
MaxRetriesValues == 0..DefaultMaxRetries
TtlValues == {TickMs, DefaultTtl}

\* the Retry-After header: absent, or a string holding a number of seconds
\* (a non-empty string, so truthy whatever the number)
Seconds(n) == [k |-> "seconds", v |-> n]
NoHeader == [k |-> "undefined", v |-> 0]
TruthyHeader(h) == h.k = "seconds"

DataResponse(net, status, json, payload, ra) ==
  [net |-> net, status |-> status, json |-> json, payload |-> payload,
   retryAfter |-> ra]

NoDataResponse == DataResponse("none", 0, "none", Undefined, NoHeader)

DataResponses ==
  {DataResponse("ok", 200, "object", p, NoHeader) : p \in Payloads}
  \cup
  {DataResponse("ok", 200, "invalid", Undefined, NoHeader),
   DataResponse("ok", 401, "object", Undefined, NoHeader),
   DataResponse("ok", 429, "object", Undefined, NoHeader),
   DataResponse("ok", 429, "object", Undefined, Seconds(2)),
   DataResponse("ok", 500, "object", Undefined, NoHeader),
   DataResponse("ok", 404, "object", Undefined, NoHeader),
   DataResponse("error", 0, "none", Undefined, NoHeader)}

\* ------------------------------------------------------------------ state
VARIABLES
  accessToken,   \* this.accessToken
  refreshToken,  \* this.refreshToken
  tokenExpiry,   \* this.tokenExpiry
  now,           \* Date.now()
  pc,            \* per caller: where its pending call is suspended
  op,            \* per caller: the operation it called last
  inflight,      \* per caller: the token request it is awaiting
  result,        \* per caller: how its last call ended
  lastResp,      \* per caller: the response its last call received
  refreshCalls,  \* per caller: refreshAccessToken() invocations of the call
  netCalls,      \* per caller: network requests sent by the call
  cache,         \* this.cache of the data client
  cacheExpiry,   \* this.cacheExpiry of the data client
  call,          \* per caller: arguments and locals of its request()
  log,           \* per caller: what its request() did, in order
  get            \* per caller: the GET it is awaiting

tokenVars == <<accessToken, refreshToken, tokenExpiry>>
callVars == <<pc, op, inflight, result, lastResp, refreshCalls, netCalls>>
clientVars == <<cache, cacheExpiry, call, log, get>>
vars == <<accessToken, refreshToken, tokenExpiry, now, pc, op, inflight,
          result, lastResp, refreshCalls, netCalls,
          cache, cacheExpiry, call, log, get>>

\* errors: the message class, the status quoted in an "HTTP <status>: ..."
\* message, and the statusCode property (the token manager's errors never
\* carry one)
Err(msg) == [msg |-> msg, http |-> 0, statusCode |-> UndefinedNum]
HttpErr(status) == [msg |-> "HTTP", http |-> status, statusCode |-> UndefinedNum]
NoErr == Err("")

NoRequest == [grant |-> "none", refresh_token |-> Undefined]

NoResult == [kind |-> "none", token |-> Undefined, data |-> NoResponse, err |-> NoErr]
Returned(token, data) == [kind |-> "ok", token |-> token, data |-> data, err |-> NoErr]
Thrown(e) == [kind |-> "err", token |-> Undefined, data |-> NoResponse, err |-> e]

\* errors of the data client: HTTP errors carry statusCode and retryAfter
DataErr(msg, status, ra) ==
  [msg |-> msg, http |-> status,
   statusCode |-> IF msg = "HTTP" THEN Num(status) ELSE UndefinedNum,
   retryAfter |-> ra]

\* the value of lastError before any attempt has failed
UndefinedErr == [msg |-> Undefined, http |-> 0, statusCode |-> UndefinedNum]

NoGet == [endpoint |-> "", token |-> Undefined]

NoCall ==
  [endpoint |-> "", maxRetries |-> 0, attempt |-> 0, lastError |-> UndefinedErr,
   sleptAt |-> 0, wakeAt |-> 0, now0 |-> 0, ttl |-> 0, data |-> Undefined,
   lastData |-> NoDataResponse, fresh |-> FALSE]

\* a Map: a function whose domain is the set of keys stored
EmptyMap == [e \in {} |-> Undefined]
\* a set() that writes the value under every key of the map
MapSet_everyKey(m, k, v) == [e \in (DOMAIN m) \cup {k} |-> v]

MapSet(m, k, v) == [e \in (DOMAIN m) \cup {k} |-> IF e = k THEN v ELSE m[e]]

Init ==
  /\ cache = EmptyMap
  /\ cacheExpiry = EmptyMap
  /\ call = [c \in Callers |-> NoCall]
  /\ log = [c \in Callers |-> <<>>]
  /\ get = [c \in Callers |-> NoGet]
  /\ accessToken = Null
  /\ refreshToken = Null
  /\ tokenExpiry = NullNum
  /\ now = StartMs
  /\ pc = [c \in Callers |-> "idle"]
  /\ op = [c \in Callers |-> "none"]
  /\ inflight = [c \in Callers |-> NoRequest]
  /\ result = [c \in Callers |-> NoResult]
  /\ lastResp = [c \in Callers |-> NoResponse]
  /\ refreshCalls = [c \in Callers |-> 0]
  /\ netCalls = [c \in Callers |-> 0]

\* ------------------------------------------------------ iRacingAuthManager
\* makeRequest(url, body): the promise's outcome for a server response
makeRequest(resp) ==
  CASE resp.net = "error" ->
         [ok |-> FALSE, value |-> NoResponse, error |-> Err("Request failed")]
    [] resp.net = "ok" /\ resp.json = "invalid" ->
         [ok |-> FALSE, value |-> NoResponse, error |-> Err("Failed to parse response")]
    [] resp.net = "ok" /\ resp.json # "invalid"
         /\ resp.status >= 200 /\ resp.status < 300 ->
         [ok |-> TRUE, value |-> resp, error |-> NoErr]
    [] resp.net = "ok" /\ resp.json = "null" ->
         \* parsed.error_description of null throws inside the try block
         [ok |-> FALSE, value |-> NoResponse, error |-> Err("Failed to parse response")]
    [] OTHER ->
         [ok |-> FALSE, value |-> NoResponse, error |-> HttpErr(resp.status)]

\* storeTokens(tokenData) reads a property of tokenData first: a JSON null
\* throws a TypeError before any field is assigned
storeTokensThrows(tokenData) == tokenData.json = "null"

\* storeTokens with the buffer subtracted from expires_in
storeTokens_bufferApplied(tokenData) ==
  /\ accessToken' = tokenData.access_token
  /\ refreshToken' = tokenData.refresh_token
  /\ tokenExpiry' = Plus(now, Times(Plus(-300, tokenData.expires_in), 1000))

\* storeTokens never moving the expiry back
storeTokens_extends(tokenData) ==
  /\ accessToken' = tokenData.access_token
  /\ refreshToken' = tokenData.refresh_token
  /\ tokenExpiry' =
       IF /\ tokenExpiry.k = "num" /\ tokenData.expires_in.k = "num"
          /\ tokenExpiry.v > now + tokenData.expires_in.v * 1000
       THEN tokenExpiry
       ELSE Plus(now, Times(tokenData.expires_in, 1000))

storeTokens(tokenData) ==
  /\ accessToken' = tokenData.access_token
  /\ refreshToken' = tokenData.refresh_token
  /\ tokenExpiry' = Plus(now, Times(tokenData.expires_in, 1000))

clearTokens ==
  /\ accessToken' = Null
  /\ refreshToken' = Null
  /\ tokenExpiry' = NullNum

isAuthenticated == accessToken # Null

\* needsRefresh with the buffer subtracted twice
needsRefresh_doubleBuffer ==
  IF FalsyNum(tokenExpiry) THEN TRUE
  ELSE now >= tokenExpiry.v - 2 * refreshBuffer

\* needsRefresh with > for >=
needsRefresh_strict ==
  IF FalsyNum(tokenExpiry) THEN TRUE
  ELSE now > tokenExpiry.v - refreshBuffer

needsRefresh ==
  IF FalsyNum(tokenExpiry) THEN TRUE
  ELSE now >= tokenExpiry.v - refreshBuffer

\* the guard testing for undefined only
notAuthenticated_undefinedOnly == accessToken = Undefined

\* the guard of getValidToken: if (!this.accessToken)
notAuthenticated == Falsy(accessToken)

\* the guard testing for undefined only
noRefreshToken_undefinedOnly == refreshToken = Undefined

\* the guard of refreshAccessToken: if (!this.refreshToken)
noRefreshToken == Falsy(refreshToken)

\* a caller starts a call: the bookkeeping of the previous call is reset
Begin(c, name) ==
  /\ pc[c] = "idle"
  /\ op' = [op EXCEPT ![c] = name]
  /\ lastResp' = [lastResp EXCEPT ![c] = NoResponse]

Send(c, req) ==
  /\ inflight' = [inflight EXCEPT ![c] = req]
  /\ netCalls' = [netCalls EXCEPT ![c] = 1]

Finish(c, res) ==
  /\ pc' = [pc EXCEPT ![c] = "idle"]
  /\ result' = [result EXCEPT ![c] = res]

Suspend(c, label) ==
  /\ pc' = [pc EXCEPT ![c] = label]
  /\ result' = [result EXCEPT ![c] = NoResult]

\* the response callback of the request caller c awaits
Receive(c, resp) ==
  /\ inflight[c].grant # "none"
  /\ inflight' = [inflight EXCEPT ![c] = NoRequest]
  /\ lastResp' = [lastResp EXCEPT ![c] = resp]

\* authenticate(email, password), up to the await of makeRequest
AuthenticateCall(c) ==
  /\ Begin(c, "authenticate")
  /\ Send(c, [grant |-> "password", refresh_token |-> Undefined])
  /\ refreshCalls' = [refreshCalls EXCEPT ![c] = 0]
  /\ Suspend(c, "authenticate")
  /\ UNCHANGED <<tokenVars, now, clientVars>>

\* authenticate clearing the tokens in its catch block, as refresh does
authenticateSettle_clears(resp) ==
  LET r == makeRequest(resp) IN
  IF r.ok /\ ~storeTokensThrows(r.value) THEN storeTokens(r.value)
  ELSE clearTokens

\* authenticate, from the response on: the new token state, and the
\* outcome of the call (the catch block logs and rethrows)
authenticateSettle(resp) ==
  LET r == makeRequest(resp) IN
  IF r.ok /\ ~storeTokensThrows(r.value) THEN storeTokens(r.value)
  ELSE UNCHANGED tokenVars

authenticateOutcome(resp) ==
  LET r == makeRequest(resp) IN
  IF r.ok /\ ~storeTokensThrows(r.value) THEN Returned(Undefined, r.value)
  ELSE Thrown(IF r.ok THEN Err("TypeError") ELSE r.error)

AuthenticateResponse(c) ==
  /\ pc[c] = "authenticate"
  /\ \E resp \in TokenResponses :
       /\ Receive(c, resp)
       /\ authenticateSettle(resp)
       /\ Finish(c, authenticateOutcome(resp))
  /\ UNCHANGED <<now, op, refreshCalls, netCalls, clientVars>>

\* refreshAccessToken without clearTokens() in its catch block
refreshSettle_keepsTokens(resp) ==
  LET r == makeRequest(resp) IN
  IF r.ok /\ ~storeTokensThrows(r.value) THEN storeTokens(r.value)
  ELSE UNCHANGED tokenVars

\* refreshAccessToken(), from the response on: the new token state, and the
\* outcome of the call (the catch block clears the tokens and rethrows)
refreshSettle(resp) ==
  LET r == makeRequest(resp) IN
  IF r.ok /\ ~storeTokensThrows(r.value) THEN storeTokens(r.value) ELSE clearTokens

\* a refresh that reports success whatever the response
refreshOutcome_swallows(resp) == Returned(Undefined, resp)

refreshOutcome(resp) ==
  LET r == makeRequest(resp) IN
  IF r.ok /\ ~storeTokensThrows(r.value) THEN Returned(Undefined, r.value)
  ELSE Thrown(IF r.ok THEN Err("TypeError") ELSE r.error)

\* refreshAccessToken() called directly, up to the await of makeRequest
RefreshCall(c) ==
  /\ Begin(c, "refreshAccessToken")
  /\ refreshCalls' = [refreshCalls EXCEPT ![c] = 1]
  /\ IF noRefreshToken
     THEN /\ Finish(c, Thrown(Err("No refresh token available")))
          /\ netCalls' = [netCalls EXCEPT ![c] = 0]
          /\ UNCHANGED inflight
     ELSE /\ Send(c, [grant |-> "refresh_token", refresh_token |-> refreshToken])
          /\ Suspend(c, "refreshAccessToken")
  /\ UNCHANGED <<tokenVars, now, clientVars>>

RefreshResponse(c) ==
  /\ pc[c] = "refreshAccessToken"
  /\ \E resp \in TokenResponses :
       /\ Receive(c, resp)
       /\ refreshSettle(resp)
       /\ Finish(c, refreshOutcome(resp))
  /\ UNCHANGED <<now, op, refreshCalls, netCalls, clientVars>>

\* getValidToken waiting while a refresh of another call is in flight
GetValidTokenCall_singleFlight(c) ==
  /\ \A d \in Callers : inflight[d].grant # "refresh_token"
  /\ Begin(c, "getValidToken")
  /\ IF notAuthenticated
     THEN /\ Finish(c, Thrown(Err("Not authenticated")))
          /\ refreshCalls' = [refreshCalls EXCEPT ![c] = 0]
          /\ netCalls' = [netCalls EXCEPT ![c] = 0]
          /\ UNCHANGED inflight
     ELSE IF needsRefresh
     THEN /\ refreshCalls' = [refreshCalls EXCEPT ![c] = 1]
          /\ IF noRefreshToken
             THEN /\ Finish(c, Thrown(Err("No refresh token available")))
                  /\ netCalls' = [netCalls EXCEPT ![c] = 0]
                  /\ UNCHANGED inflight
             ELSE /\ Send(c, [grant |-> "refresh_token", refresh_token |-> refreshToken])
                  /\ Suspend(c, "getValidToken")
     ELSE /\ Finish(c, Returned(accessToken, NoResponse))
          /\ refreshCalls' = [refreshCalls EXCEPT ![c] = 0]
          /\ netCalls' = [netCalls EXCEPT ![c] = 0]
          /\ UNCHANGED inflight
  /\ UNCHANGED <<tokenVars, now, clientVars>>

\* getValidToken(), up to the await of its refresh (or to its end)
GetValidTokenCall(c) ==
  /\ Begin(c, "getValidToken")
  /\ IF notAuthenticated
     THEN /\ Finish(c, Thrown(Err("Not authenticated")))
          /\ refreshCalls' = [refreshCalls EXCEPT ![c] = 0]
          /\ netCalls' = [netCalls EXCEPT ![c] = 0]
          /\ UNCHANGED inflight
     ELSE IF needsRefresh
     THEN /\ refreshCalls' = [refreshCalls EXCEPT ![c] = 1]
          /\ IF noRefreshToken
             THEN /\ Finish(c, Thrown(Err("No refresh token available")))
                  /\ netCalls' = [netCalls EXCEPT ![c] = 0]
                  /\ UNCHANGED inflight
             ELSE /\ Send(c, [grant |-> "refresh_token", refresh_token |-> refreshToken])
                  /\ Suspend(c, "getValidToken")
     ELSE /\ Finish(c, Returned(accessToken, NoResponse))
          /\ refreshCalls' = [refreshCalls EXCEPT ![c] = 0]
          /\ netCalls' = [netCalls EXCEPT ![c] = 0]
          /\ UNCHANGED inflight
  /\ UNCHANGED <<tokenVars, now, clientVars>>

\* getValidToken returning this.accessToken also when its refresh failed
GetValidTokenResponse_swallows(c) ==
  /\ pc[c] = "getValidToken"
  /\ \E resp \in TokenResponses :
       /\ Receive(c, resp)
       /\ refreshSettle(resp)
       /\ Finish(c, Returned(accessToken', NoResponse))
  /\ UNCHANGED <<now, op, refreshCalls, netCalls, clientVars>>

\* getValidToken returning the token it read before the refresh
GetValidTokenResponse_stale(c) ==
  /\ pc[c] = "getValidToken"
  /\ \E resp \in TokenResponses :
       /\ Receive(c, resp)
       /\ refreshSettle(resp)
       /\ IF refreshOutcome(resp).kind = "ok"
          THEN Finish(c, Returned(accessToken, NoResponse))
          ELSE Finish(c, refreshOutcome(resp))
  /\ UNCHANGED <<now, op, refreshCalls, netCalls, clientVars>>

\* getValidToken(), from the response of its refresh on
GetValidTokenResponse(c) ==
  /\ pc[c] = "getValidToken"
  /\ \E resp \in TokenResponses :
       /\ Receive(c, resp)
       /\ refreshSettle(resp)
       /\ IF refreshOutcome(resp).kind = "ok"
          THEN Finish(c, Returned(accessToken', NoResponse))
          ELSE Finish(c, refreshOutcome(resp))
  /\ UNCHANGED <<now, op, refreshCalls, netCalls, clientVars>>


\* ------------------------------------------------------- iRacingDataClient
\* makeHttpsRequest resolving a 2xx response whose body does not parse
makeHttpsRequest_noParseError(resp) ==
  CASE resp.net = "error" ->
         [ok |-> FALSE, value |-> Undefined,
          error |-> DataErr("Request failed", 0, NoHeader)]
    [] resp.net = "ok" /\ resp.status >= 200 /\ resp.status < 300 ->
         [ok |-> TRUE, value |-> resp.payload, error |-> NoErr]
    [] OTHER ->
         [ok |-> FALSE, value |-> Undefined,
          error |-> DataErr("HTTP", resp.status, resp.retryAfter)]

\* makeHttpsRequest(url, token): the promise's outcome for a server response
makeHttpsRequest(resp) ==
  CASE resp.net = "error" ->
         [ok |-> FALSE, value |-> Undefined,
          error |-> DataErr("Request failed", 0, NoHeader)]
    [] resp.net = "ok" /\ resp.status >= 200 /\ resp.status < 300
         /\ resp.json = "invalid" ->
         [ok |-> FALSE, value |-> Undefined,
          error |-> DataErr("Failed to parse JSON", 0, NoHeader)]
    [] resp.net = "ok" /\ resp.status >= 200 /\ resp.status < 300
         /\ resp.json # "invalid" ->
         [ok |-> TRUE, value |-> resp.payload, error |-> NoErr]
    [] OTHER ->
         [ok |-> FALSE, value |-> Undefined,
          error |-> DataErr("HTTP", resp.status, resp.retryAfter)]

\* the wait ignoring the Retry-After header
rateLimitSeconds_ignoresHeader(error, attempt) == 2 ^ attempt

\* const retryAfter = error.retryAfter || Math.pow(2, attempt), in seconds
rateLimitSeconds(error, attempt) ==
  IF TruthyHeader(error.retryAfter) THEN error.retryAfter.v ELSE 2 ^ attempt

\* a backoff that does not grow with the attempt
serverBackoff_fixed(attempt) == 1000

\* const backoff = Math.pow(2, attempt) * 1000, in milliseconds
serverBackoff(attempt) == (2 ^ attempt) * 1000

\* the cache test never succeeding
cacheHit_never(endpoint) == FALSE

\* the cache test without the expiry
cacheHit_ignoresExpiry(endpoint) == endpoint \in DOMAIN cache

\* the cache test of cachedRequest
cacheHit(endpoint) ==
  /\ endpoint \in DOMAIN cache
  /\ endpoint \in DOMAIN cacheExpiry
  /\ now < cacheExpiry[endpoint]

\* the caller's next suspension point (or the end of its call)
Configure(c, label, res, frame, lg, rc, nc, tokenReq, getReq) ==
  /\ pc' = [pc EXCEPT ![c] = label]
  /\ result' = [result EXCEPT ![c] = res]
  /\ call' = [call EXCEPT ![c] = frame]
  /\ log' = [log EXCEPT ![c] = lg]
  /\ refreshCalls' = [refreshCalls EXCEPT ![c] = rc]
  /\ netCalls' = [netCalls EXCEPT ![c] = nc]
  /\ inflight' = [inflight EXCEPT ![c] = tokenReq]
  /\ get' = [get EXCEPT ![c] = getReq]

\* request() throws; a cachedRequest() around it throws too
Ended(frame) == [frame EXCEPT !.sleptAt = 0, !.wakeAt = 0, !.now0 = 0, !.ttl = 0]

\* a failure that also drops the cache entry of the endpoint
Fail_evicts(c, frame, lg, rc, nc, error) ==
  /\ Configure(c, "idle", Thrown(error), Ended(frame), lg, rc, nc,
               NoRequest, NoGet)
  /\ cache' = [k \in DOMAIN cache \ {frame.endpoint} |-> cache[k]]
  /\ cacheExpiry' = [k \in DOMAIN cacheExpiry \ {frame.endpoint} |->
                       cacheExpiry[k]]

Fail(c, frame, lg, rc, nc, error) ==
  /\ Configure(c, "idle", Thrown(error), Ended(frame), lg, rc, nc,
               NoRequest, NoGet)
  /\ UNCHANGED <<cache, cacheExpiry>>

\* what the log notes of a store: whether the entry it replaces was stored
\* after this call had started (the call would have hit it), 1 if it replaces
\* an entry and 0 if not, and whether the expiry stored is not after the time
\* of the store
StoreNotes(frame) ==
  (IF frame.endpoint \in DOMAIN cacheExpiry
      /\ frame.now0 < cacheExpiry[frame.endpoint]
   THEN <<<<"overlap", 1>>>> ELSE <<>>)
  \o <<<<"store", IF frame.endpoint \in DOMAIN cache THEN 1 ELSE 0>>>>
  \o (IF now >= frame.now0 + frame.ttl THEN <<<<"expired", 1>>>> ELSE <<>>)

\* a store that gives way to an entry stored after this call had started
Succeed_keepsNewer(c, frame, lg, rc, nc, data) ==
  /\ Configure(c, "idle", Returned(Undefined, NoResponse),
               Ended([frame EXCEPT !.data = data]),
               IF op[c] = "cachedRequest" THEN lg \o StoreNotes(frame) ELSE lg,
               rc, nc, NoRequest, NoGet)
  /\ IF /\ op[c] = "cachedRequest"
        /\ ~(/\ frame.endpoint \in DOMAIN cacheExpiry
             /\ frame.now0 < cacheExpiry[frame.endpoint])
     THEN /\ cache' = MapSet(cache, frame.endpoint, data)
          /\ cacheExpiry' = MapSet(cacheExpiry, frame.endpoint,
                                   frame.now0 + frame.ttl)
     ELSE UNCHANGED <<cache, cacheExpiry>>

\* the store taking the time of the store for the expiry
Succeed_expiryFromStore(c, frame, lg, rc, nc, data) ==
  /\ Configure(c, "idle", Returned(Undefined, NoResponse),
               Ended([frame EXCEPT !.data = data]),
               IF op[c] = "cachedRequest" THEN lg \o StoreNotes(frame) ELSE lg,
               rc, nc, NoRequest, NoGet)
  /\ IF op[c] = "cachedRequest"
     THEN /\ cache' = MapSet(cache, frame.endpoint, data)
          /\ cacheExpiry' = MapSet(cacheExpiry, frame.endpoint, now + frame.ttl)
     ELSE UNCHANGED <<cache, cacheExpiry>>

\* the store dropping every other entry
Succeed_evictsOthers(c, frame, lg, rc, nc, data) ==
  /\ Configure(c, "idle", Returned(Undefined, NoResponse),
               Ended([frame EXCEPT !.data = data]),
               IF op[c] = "cachedRequest" THEN lg \o StoreNotes(frame) ELSE lg,
               rc, nc, NoRequest, NoGet)
  /\ IF op[c] = "cachedRequest"
     THEN /\ cache' = MapSet(EmptyMap, frame.endpoint, data)
          /\ cacheExpiry' = MapSet(EmptyMap, frame.endpoint,
                                   frame.now0 + frame.ttl)
     ELSE UNCHANGED <<cache, cacheExpiry>>

\* request() returns data; a cachedRequest() around it stores the data
\* with the expiry now + ttl, now being read when cachedRequest() started
Succeed(c, frame, lg, rc, nc, data) ==
  /\ Configure(c, "idle", Returned(Undefined, NoResponse),
               Ended([frame EXCEPT !.data = data]),
               IF op[c] = "cachedRequest" THEN lg \o StoreNotes(frame) ELSE lg,
               rc, nc, NoRequest, NoGet)
  /\ IF op[c] = "cachedRequest"
     THEN /\ cache' = MapSet(cache, frame.endpoint, data)
          /\ cacheExpiry' = MapSet(cacheExpiry, frame.endpoint,
                                   frame.now0 + frame.ttl)
     ELSE UNCHANGED <<cache, cacheExpiry>>

\* the loop head sending the GET although no token is held
AttemptStart_unauthenticatedGet(a, mr, lastError, notAuth, needs, noRT, token) ==
  CASE a >= mr ->
         [k |-> "throw", err |-> lastError, lastError |-> lastError,
          refreshed |-> 0, token |-> Undefined]
    [] a < mr /\ notAuth ->
         [k |-> "get", err |-> NoErr, lastError |-> lastError,
          refreshed |-> 0, token |-> token]
    [] a < mr /\ ~notAuth /\ needs /\ noRT ->
         [k |-> "throw", err |-> Err("No refresh token available"),
          lastError |-> Err("No refresh token available"),
          refreshed |-> 1, token |-> Undefined]
    [] a < mr /\ ~notAuth /\ needs /\ ~noRT ->
         [k |-> "tokenRefresh", err |-> NoErr, lastError |-> lastError,
          refreshed |-> 1, token |-> Undefined]
    [] OTHER ->
         [k |-> "get", err |-> NoErr, lastError |-> lastError,
          refreshed |-> 0, token |-> token]

\* the loop throwing a generic error once the attempts are used up
AttemptStart_genericError(a, mr, lastError, notAuth, needs, noRT, token) ==
  CASE a >= mr ->
         [k |-> "throw", err |-> Err("Max retries exceeded"),
          lastError |-> lastError,
          refreshed |-> 0, token |-> Undefined]
    [] a < mr /\ notAuth ->
         [k |-> "throw", err |-> Err("Not authenticated"),
          lastError |-> Err("Not authenticated"),
          refreshed |-> 0, token |-> Undefined]
    [] a < mr /\ ~notAuth /\ needs /\ noRT ->
         [k |-> "throw", err |-> Err("No refresh token available"),
          lastError |-> Err("No refresh token available"),
          refreshed |-> 1, token |-> Undefined]
    [] a < mr /\ ~notAuth /\ needs /\ ~noRT ->
         [k |-> "tokenRefresh", err |-> NoErr, lastError |-> lastError,
          refreshed |-> 1, token |-> Undefined]
    [] OTHER ->
         [k |-> "get", err |-> NoErr, lastError |-> lastError,
          refreshed |-> 0, token |-> token]

\* the loop test attempt <= maxRetries: one attempt more
AttemptStart_extraAttempt(a, mr, lastError, notAuth, needs, noRT, token) ==
  CASE a > mr ->
         [k |-> "throw", err |-> lastError, lastError |-> lastError,
          refreshed |-> 0, token |-> Undefined]
    [] a <= mr /\ notAuth ->
         [k |-> "throw", err |-> Err("Not authenticated"),
          lastError |-> Err("Not authenticated"),
          refreshed |-> 0, token |-> Undefined]
    [] a <= mr /\ ~notAuth /\ needs /\ noRT ->
         [k |-> "throw", err |-> Err("No refresh token available"),
          lastError |-> Err("No refresh token available"),
          refreshed |-> 1, token |-> Undefined]
    [] a <= mr /\ ~notAuth /\ needs /\ ~noRT ->
         [k |-> "tokenRefresh", err |-> NoErr, lastError |-> lastError,
          refreshed |-> 1, token |-> Undefined]
    [] OTHER ->
         [k |-> "get", err |-> NoErr, lastError |-> lastError,
          refreshed |-> 0, token |-> token]

\* the loop testing its condition after the first attempt only
AttemptStart_atLeastOnce(a, mr, lastError, notAuth, needs, noRT, token) ==
  CASE a >= mr /\ a > 0 ->
         [k |-> "throw", err |-> lastError, lastError |-> lastError,
          refreshed |-> 0, token |-> Undefined]
    [] (a < mr \/ a = 0) /\ notAuth ->
         [k |-> "throw", err |-> Err("Not authenticated"),
          lastError |-> Err("Not authenticated"),
          refreshed |-> 0, token |-> Undefined]
    [] (a < mr \/ a = 0) /\ ~notAuth /\ needs /\ noRT ->
         [k |-> "throw", err |-> Err("No refresh token available"),
          lastError |-> Err("No refresh token available"),
          refreshed |-> 1, token |-> Undefined]
    [] (a < mr \/ a = 0) /\ ~notAuth /\ needs /\ ~noRT ->
         [k |-> "tokenRefresh", err |-> NoErr, lastError |-> lastError,
          refreshed |-> 1, token |-> Undefined]
    [] OTHER ->
         [k |-> "get", err |-> NoErr, lastError |-> lastError,
          refreshed |-> 0, token |-> token]

\* the head of the attempt loop of request(), up to the first await of
\* attempt a: the loop test, then getValidToken() on the given token fields
AttemptStart(a, mr, lastError, notAuth, needs, noRT, token) ==
  CASE a >= mr ->
         [k |-> "throw", err |-> lastError, lastError |-> lastError,
          refreshed |-> 0, token |-> Undefined]
    [] a < mr /\ notAuth ->
         [k |-> "throw", err |-> Err("Not authenticated"),
          lastError |-> Err("Not authenticated"),
          refreshed |-> 0, token |-> Undefined]
    [] a < mr /\ ~notAuth /\ needs /\ noRT ->
         [k |-> "throw", err |-> Err("No refresh token available"),
          lastError |-> Err("No refresh token available"),
          refreshed |-> 1, token |-> Undefined]
    [] a < mr /\ ~notAuth /\ needs /\ ~noRT ->
         [k |-> "tokenRefresh", err |-> NoErr, lastError |-> lastError,
          refreshed |-> 1, token |-> Undefined]
    [] OTHER ->
         [k |-> "get", err |-> NoErr, lastError |-> lastError,
          refreshed |-> 0, token |-> token]

Proceed(c, frame, lg, rc, nc, plan, rt) ==
  /\ CASE plan.k = "throw" ->
            Configure(c, "idle", Thrown(plan.err),
                      Ended([frame EXCEPT !.lastError = plan.lastError]),
                      lg, rc + plan.refreshed, nc, NoRequest, NoGet)
       [] plan.k = "tokenRefresh" ->
            Configure(c, "request:getValidToken", NoResult, frame,
                      Append(lg, <<"tokenRefresh", frame.attempt>>),
                      rc + 1, nc + 1,
                      [grant |-> "refresh_token", refresh_token |-> rt], NoGet)
       [] plan.k = "get" ->
            Configure(c, "request:get", NoResult, frame,
                      Append(lg, <<"GET", frame.attempt>>),
                      rc, nc + 1, NoRequest,
                      [endpoint |-> frame.endpoint, token |-> plan.token])
  /\ UNCHANGED <<cache, cacheExpiry>>

\* request(endpoint, maxRetries) from its first statement
RequestBegin(c, endpoint, mr, now0, ttl) ==
  Proceed(c,
          [NoCall EXCEPT !.endpoint = endpoint, !.maxRetries = mr,
                         !.now0 = now0, !.ttl = ttl,
                         !.fresh = ~notAuthenticated /\ ~needsRefresh],
          <<>>, 0, 0,
          AttemptStart(0, mr, UndefinedErr, notAuthenticated, needsRefresh,
                       noRefreshToken, accessToken),
          refreshToken)

\* what the log keeps of a token response: its expires_in, 0 if it reports
\* none, -1 if the refresh failed
LoggedExpiresIn(resp) ==
  CASE refreshOutcome(resp).kind # "ok" -> -1
    [] refreshOutcome(resp).kind = "ok" /\ resp.expires_in.k = "num" ->
         resp.expires_in.v
    [] OTHER -> 0

\* request(endpoint, maxRetries) called directly
RequestCall(c) ==
  /\ now <= MaxNow
  /\ Begin(c, "request")
  /\ \E endpoint \in Endpoints, mr \in MaxRetriesValues :
       RequestBegin(c, endpoint, mr, 0, 0)
  /\ UNCHANGED <<tokenVars, now>>

\* cachedRequest serving the cache only while a token is held
CachedRequestCall_needsToken(c) ==
  /\ now <= MaxNow
  /\ Begin(c, "cachedRequest")
  /\ \E endpoint \in Endpoints, ttl \in TtlValues :
       IF cacheHit(endpoint) /\ ~notAuthenticated
       THEN /\ Configure(c, "idle", Returned(Undefined, NoResponse),
                         [NoCall EXCEPT !.endpoint = endpoint,
                                        !.data = cache[endpoint]],
                         <<>>, 0, 0, NoRequest, NoGet)
            /\ UNCHANGED <<cache, cacheExpiry>>
       ELSE RequestBegin(c, endpoint, DefaultMaxRetries, now, ttl)
  /\ UNCHANGED <<tokenVars, now>>

\* cachedRequest(endpoint, ttl): a hit returns at once, a miss calls
\* request(endpoint)
CachedRequestCall(c) ==
  /\ now <= MaxNow
  /\ Begin(c, "cachedRequest")
  /\ \E endpoint \in Endpoints, ttl \in TtlValues :
       IF cacheHit(endpoint)
       THEN /\ Configure(c, "idle", Returned(Undefined, NoResponse),
                         [NoCall EXCEPT !.endpoint = endpoint,
                                        !.data = cache[endpoint]],
                         <<>>, 0, 0, NoRequest, NoGet)
            /\ UNCHANGED <<cache, cacheExpiry>>
       ELSE RequestBegin(c, endpoint, DefaultMaxRetries, now, ttl)
  /\ UNCHANGED <<tokenVars, now>>

\* the refresh inside getValidToken() answers: request() goes on to its GET
RequestTokenResponse(c) ==
  /\ pc[c] = "request:getValidToken"
  /\ UNCHANGED <<now, op>>
  /\ \E resp \in RequestTokenResponses :
       LET lg == Append(log[c], <<"token", LoggedExpiresIn(resp)>>) IN
       /\ lastResp' = [lastResp EXCEPT ![c] = resp]
       /\ refreshSettle(resp)
       /\ IF refreshOutcome(resp).kind = "ok"
          THEN Proceed(c, call[c], lg, refreshCalls[c], netCalls[c],
                       [k |-> "get", err |-> NoErr,
                        lastError |-> call[c].lastError,
                        refreshed |-> 0, token |-> accessToken'],
                       refreshToken')
          ELSE Fail(c, [call[c] EXCEPT !.lastError = refreshOutcome(resp).err],
                    lg, refreshCalls[c], netCalls[c], refreshOutcome(resp).err)

\* the GET answers: return, or the catch block of request()
RequestDataResponse(c) ==
  /\ pc[c] = "request:get"
  /\ \E resp \in DataResponses :
       LET r == makeHttpsRequest(resp)
           a == call[c].attempt
           lg == Append(log[c], <<"status", resp.status>>)
           frame == [call[c] EXCEPT !.lastData = resp,
                                    !.lastError = IF r.ok THEN @ ELSE r.error]
           rc == refreshCalls[c]
           nc == netCalls[c]
       IN
       IF r.ok THEN Succeed(c, frame, lg, rc, nc, r.value)
       ELSE CASE r.error.statusCode = Num(401) ->
                   IF noRefreshToken
                   THEN Fail(c, frame, lg, rc + 1, nc,
                             Err("No refresh token available"))
                   ELSE /\ Configure(c, "request:refresh", NoResult, frame,
                                     Append(lg, <<"refresh", a>>), rc + 1, nc + 1,
                                     [grant |-> "refresh_token",
                                      refresh_token |-> refreshToken], NoGet)
                        /\ UNCHANGED <<cache, cacheExpiry>>
              [] r.error.statusCode = Num(429) ->
                   LET ms == rateLimitSeconds(r.error, a) * 1000 IN
                   /\ Configure(c, "request:sleep", NoResult,
                                [frame EXCEPT !.sleptAt = now, !.wakeAt = now + ms],
                                Append(lg, <<"sleep", ms>>), rc, nc, NoRequest, NoGet)
                   /\ UNCHANGED <<cache, cacheExpiry>>
              [] /\ r.error.statusCode.k = "num"
                 /\ r.error.statusCode.v >= 500
                 /\ a < call[c].maxRetries - 1 ->
                   LET ms == serverBackoff(a) IN
                   /\ Configure(c, "request:sleep", NoResult,
                                [frame EXCEPT !.sleptAt = now, !.wakeAt = now + ms],
                                Append(lg, <<"sleep", ms>>), rc, nc, NoRequest, NoGet)
                   /\ UNCHANGED <<cache, cacheExpiry>>
              [] OTHER -> Fail(c, frame, lg, rc, nc, r.error)
  /\ UNCHANGED <<tokenVars, now, op, lastResp>>

\* the 401 branch repeating the same attempt instead of continuing the loop
RequestRefreshResponse_sameAttempt(c) ==
  /\ pc[c] = "request:refresh"
  /\ UNCHANGED <<now, op>>
  /\ \E resp \in RequestTokenResponses :
       LET lg == Append(log[c], <<"token", LoggedExpiresIn(resp)>>)
           frame == call[c]
       IN
       /\ lastResp' = [lastResp EXCEPT ![c] = resp]
       /\ refreshSettle(resp)
       /\ IF refreshOutcome(resp).kind = "ok"
          THEN Proceed(c, frame, lg, refreshCalls[c], netCalls[c],
                       AttemptStart(frame.attempt, frame.maxRetries,
                                    frame.lastError, notAuthenticated',
                                    needsRefresh', noRefreshToken', accessToken'),
                       refreshToken')
          ELSE Fail(c, call[c], lg, refreshCalls[c], netCalls[c],
                    refreshOutcome(resp).err)

\* the refresh after a 401 answers: next attempt, or request() throws
RequestRefreshResponse(c) ==
  /\ pc[c] = "request:refresh"
  /\ UNCHANGED <<now, op>>
  /\ \E resp \in RequestTokenResponses :
       LET lg == Append(log[c], <<"token", LoggedExpiresIn(resp)>>)
           frame == [call[c] EXCEPT !.attempt = @ + 1]
       IN
       /\ lastResp' = [lastResp EXCEPT ![c] = resp]
       /\ refreshSettle(resp)
       /\ IF refreshOutcome(resp).kind = "ok"
          THEN Proceed(c, frame, lg, refreshCalls[c], netCalls[c],
                       AttemptStart(frame.attempt, frame.maxRetries,
                                    frame.lastError, notAuthenticated',
                                    needsRefresh', noRefreshToken', accessToken'),
                       refreshToken')
          ELSE Fail(c, call[c], lg, refreshCalls[c], netCalls[c],
                    refreshOutcome(resp).err)

\* a timer that never fires
SleepDone_lost(c) ==
  /\ pc[c] = "request:sleep"
  /\ FALSE
  /\ UNCHANGED vars

\* the timer of sleep(ms) fires, no earlier than ms after it was set: next
\* attempt
SleepDone(c) ==
  /\ pc[c] = "request:sleep"
  /\ now >= call[c].wakeAt
  /\ LET frame == [call[c] EXCEPT !.attempt = @ + 1] IN
     Proceed(c, frame, log[c], refreshCalls[c], netCalls[c],
             AttemptStart(frame.attempt, frame.maxRetries, frame.lastError,
                          notAuthenticated, needsRefresh, noRefreshToken,
                          accessToken),
             refreshToken)
  /\ UNCHANGED <<tokenVars, now, op, lastResp>>

\* what the logs note of a clearCache() that removes entries: the log of each
\* cachedRequest() that is awaiting its fetch notes, once, that the cache was
\* cleared meanwhile
ClearNotes ==
  [c \in Callers |->
     IF /\ pc[c] # "idle" /\ op[c] = "cachedRequest"
        /\ DOMAIN cache # {}
        /\ \A i \in DOMAIN log[c] : log[c][i] # <<"cleared", 1>>
     THEN Append(log[c], <<"cleared", 1>>)
     ELSE log[c]]

\* a clearCache() that removes the expired entries only
ClearCache_expiredOnly ==
  /\ cache' = [k \in {e \in DOMAIN cache : now < cacheExpiry[e]} |-> cache[k]]
  /\ cacheExpiry' = [k \in {e \in DOMAIN cache : now < cacheExpiry[e]} |->
                       cacheExpiry[k]]
  /\ log' = ClearNotes
  /\ UNCHANGED <<tokenVars, now, callVars, call, get>>

\* a clearCache() that clears the payloads and keeps the expiries
ClearCache_payloadsOnly ==
  /\ cache' = EmptyMap
  /\ log' = ClearNotes
  /\ UNCHANGED <<tokenVars, now, callVars, cacheExpiry, call, get>>

\* a clearCache() that also abandons the fetches in progress
ClearCache_cancelsFills ==
  /\ cache' = EmptyMap
  /\ cacheExpiry' = EmptyMap
  /\ log' = ClearNotes
  /\ pc' = [c \in Callers |->
              IF op[c] = "cachedRequest" /\ pc[c] = "request:get"
              THEN "idle" ELSE pc[c]]
  /\ result' = [c \in Callers |->
                  IF op[c] = "cachedRequest" /\ pc[c] = "request:get"
                  THEN Thrown(Err("cancelled")) ELSE result[c]]
  /\ get' = [c \in Callers |->
               IF op[c] = "cachedRequest" /\ pc[c] = "request:get"
               THEN NoGet ELSE get[c]]
  /\ UNCHANGED <<tokenVars, now, op, inflight, lastResp, refreshCalls,
                 netCalls, call>>

\* clearCache()
ClearCache ==
  /\ cache' = EmptyMap
  /\ cacheExpiry' = EmptyMap
  /\ log' = ClearNotes
  /\ UNCHANGED <<tokenVars, now, callVars, call, get>>

\* time passes (calls start up to MaxNow; a sleep that is running may still end)
Tick ==
  /\ \/ now < MaxNow
     \/ \E c \in Callers : pc[c] = "request:sleep" /\ now < call[c].wakeAt
  /\ now' = now + TickMs
  /\ UNCHANGED <<tokenVars, callVars, clientVars>>

Next ==
  \/ Tick
  \/ \E c \in Callers : AuthenticateCall(c)
  \/ \E c \in Callers : AuthenticateResponse(c)
  \/ \E c \in Callers : RefreshCall(c)
  \/ \E c \in Callers : RefreshResponse(c)
  \/ \E c \in Callers : GetValidTokenCall(c)
  \/ \E c \in Callers : GetValidTokenResponse(c)

Spec == Init /\ [][Next]_vars

\* one caller, each call made after the previous one has ended
SingleCaller == "A"

NextSingle ==
  \/ Tick
  \/ AuthenticateCall(SingleCaller)
  \/ AuthenticateResponse(SingleCaller)
  \/ RefreshCall(SingleCaller)
  \/ RefreshResponse(SingleCaller)
  \/ GetValidTokenCall(SingleCaller)
  \/ GetValidTokenResponse(SingleCaller)

SpecSingle == Init /\ [][NextSingle]_vars

\* one caller that calls refreshAccessToken() right after each successful
\* authenticate(), and nothing else
RoundTripRefreshCall(c) ==
  /\ op[c] = "authenticate" /\ result[c].kind = "ok"
  /\ RefreshCall(c)

NextRoundTrip ==
  \/ Tick
  \/ AuthenticateCall(SingleCaller)
  \/ AuthenticateResponse(SingleCaller)
  \/ RoundTripRefreshCall(SingleCaller)
  \/ RefreshResponse(SingleCaller)

SpecRoundTrip == Init /\ [][NextRoundTrip]_vars

\* the data client after main() has authenticated and constructed it: one
\* caller of request()
InitClient ==
  /\ cache = EmptyMap
  /\ cacheExpiry = EmptyMap
  /\ call = [c \in Callers |-> NoCall]
  /\ log = [c \in Callers |-> <<>>]
  /\ get = [c \in Callers |-> NoGet]
  /\ accessToken = "at1"
  /\ refreshToken = "rt1"
  /\ tokenExpiry = Num(StartMs + 2 * refreshBuffer)
  /\ now = StartMs
  /\ pc = [c \in Callers |-> "idle"]
  /\ op = [c \in Callers |-> "none"]
  /\ inflight = [c \in Callers |-> NoRequest]
  /\ result = [c \in Callers |-> NoResult]
  /\ lastResp = [c \in Callers |-> NoResponse]
  /\ refreshCalls = [c \in Callers |-> 0]
  /\ netCalls = [c \in Callers |-> 0]

NextRequest ==
  \/ Tick
  \/ RequestCall(SingleCaller)
  \/ RequestTokenResponse(SingleCaller)
  \/ RequestDataResponse(SingleCaller)
  \/ RequestRefreshResponse(SingleCaller)
  \/ SleepDone(SingleCaller)

SpecRequest == InitClient /\ [][NextRequest]_vars

\* every response arrives, time passes and every timer fires
FairRequest ==
  /\ WF_vars(Tick)
  /\ WF_vars(RequestTokenResponse(SingleCaller))
  /\ WF_vars(RequestDataResponse(SingleCaller))
  /\ WF_vars(RequestRefreshResponse(SingleCaller))
  /\ WF_vars(SleepDone(SingleCaller))

SpecRequestLive == SpecRequest /\ FairRequest

\* the same client with one caller of cachedRequest() and clearCache(), and
\* a server that answers the GETs with a payload, a 404 or a 500
CacheDataResponses ==
  {r \in DataResponses : r.net = "ok" /\ r.json = "object"
                                      /\ r.status \in {200, 404, 500}}

CacheDataResponse(c) ==
  /\ RequestDataResponse(c)
  /\ call'[c].lastData \in CacheDataResponses

NextCache ==
  \/ Tick
  \/ CachedRequestCall(SingleCaller)
  \/ RequestTokenResponse(SingleCaller)
  \/ CacheDataResponse(SingleCaller)
  \/ SleepDone(SingleCaller)
  \/ ClearCache

SpecCache == InitClient /\ [][NextCache]_vars

\* the same client with two callers whose cachedRequest() calls overlap each
\* other and clearCache(), and a server that answers with a payload or a 404
SharedDataResponses ==
  {r \in DataResponses : r.net = "ok" /\ r.json = "object"
                                      /\ r.status \in {200, 404}}

SharedDataResponse(c) ==
  /\ RequestDataResponse(c)
  /\ call'[c].lastData \in SharedDataResponses

\* main() has authenticated, which took some time, with a token that
\* outlives the run, so that no call refreshes it
InitShared ==
  /\ cache = EmptyMap
  /\ cacheExpiry = EmptyMap
  /\ call = [c \in Callers |-> NoCall]
  /\ log = [c \in Callers |-> <<>>]
  /\ get = [c \in Callers |-> NoGet]
  /\ accessToken = "at1"
  /\ refreshToken = "rt1"
  /\ tokenExpiry = Num(MaxNow + 2 * refreshBuffer)
  /\ now = StartMs + 2 * TickMs
  /\ pc = [c \in Callers |-> "idle"]
  /\ op = [c \in Callers |-> "none"]
  /\ inflight = [c \in Callers |-> NoRequest]
  /\ result = [c \in Callers |-> NoResult]
  /\ lastResp = [c \in Callers |-> NoResponse]
  /\ refreshCalls = [c \in Callers |-> 0]
  /\ netCalls = [c \in Callers |-> 0]

NextShared ==
  \/ Tick
  \/ \E c \in Callers : CachedRequestCall(c)
  \/ \E c \in Callers : SharedDataResponse(c)
  \/ ClearCache

SpecShared == InitShared /\ [][NextShared]_vars

TypeOK ==
  /\ accessToken \in STRING
  /\ refreshToken \in STRING
  /\ tokenExpiry.k \in {"num", "nan", "null"}
  /\ now \in StartMs..(MaxNow + DefaultMaxRetries * TickMs)
  /\ \A c \in Callers :
       /\ pc[c] \in {"idle", "authenticate", "refreshAccessToken", "getValidToken",
                   "request:getValidToken", "request:get", "request:refresh",
                   "request:sleep"}
       /\ (pc[c] \in {"idle", "request:get", "request:sleep"})
            = (inflight[c] = NoRequest)
       /\ (pc[c] = "request:get") = (get[c] # NoGet)
       /\ refreshCalls[c] \in 0..(2 * DefaultMaxRetries)
       /\ netCalls[c] \in 0..(3 * DefaultMaxRetries)
       /\ call[c].attempt \in 0..DefaultMaxRetries
  /\ DOMAIN cache = DOMAIN cacheExpiry
  /\ DOMAIN cache \subseteq Endpoints

\* ---------------------------------------------------------------- claims
\* a TokenState is present (all three fields hold real values) or absent
TokenStatePresent ==
  /\ accessToken \notin {Null, Undefined}
  /\ refreshToken \notin {Null, Undefined}
  /\ tokenExpiry.k = "num"

TokenStateAbsent ==
  /\ accessToken = Null
  /\ refreshToken = Null
  /\ tokenExpiry = NullNum

\* the response of a failed request: transport failure, unparseable body,
\* or a status outside 2xx
FailedResponse(r) ==
  \/ r.net = "error"
  \/ r.json = "invalid"
  \/ r.status < 200
  \/ r.status >= 300

RequestErrors == {"Request failed", "Failed to parse response", "HTTP"}

\* C1: when TokenState is present and expires_at is more than the refresh
\* buffer after the current time, getValidToken() returns the stored access
\* token at once, calls no refresh, sends no request and leaves TokenState
\* unchanged.
C1_FreshTokenReturnedWithoutRefresh ==
  [][\A c \in Callers :
       (GetValidTokenCall(c) /\ TokenStatePresent
          /\ tokenExpiry.v - now > refreshBuffer)
       => /\ pc'[c] = "idle"
          /\ result'[c] = Returned(accessToken, NoResponse)
          /\ refreshCalls'[c] = 0
          /\ netCalls'[c] = 0
          /\ inflight' = inflight
          /\ UNCHANGED tokenVars]_vars

C1_Witness ==
  \E c \in Callers :
    /\ op[c] = "getValidToken" /\ pc[c] = "idle"
    /\ TokenStatePresent /\ tokenExpiry.v - now > refreshBuffer
    /\ result[c] = Returned(accessToken, NoResponse)
    /\ refreshCalls[c] = 0 /\ netCalls[c] = 0

\* C2: when TokenState is present and expires_at is at or within the
\* refresh buffer of the current time, or in the past, getValidToken() calls
\* refresh exactly once (one refresh request carrying the stored refresh
\* token) before it returns, and when that refresh succeeds it returns the
\* access token of the refresh response.
C2_StaleTokenRefreshedOnce ==
  [][\A c \in Callers :
       /\ (GetValidTokenCall(c) /\ TokenStatePresent
             /\ tokenExpiry.v - now <= refreshBuffer)
          => /\ pc'[c] = "getValidToken"
             /\ refreshCalls'[c] = 1
             /\ netCalls'[c] = 1
             /\ inflight'[c] = [grant |-> "refresh_token",
                                refresh_token |-> refreshToken]
       /\ GetValidTokenResponse(c)
          => /\ pc'[c] = "idle"
             /\ refreshCalls'[c] = 1
             /\ netCalls'[c] = 1
             /\ inflight'[c] = NoRequest
             /\ (~FailedResponse(lastResp'[c]) /\ lastResp'[c].json = "object")
                => result'[c] = Returned(lastResp'[c].access_token, NoResponse)]_vars

C2_Witness ==
  \E c \in Callers :
    /\ op[c] = "getValidToken" /\ pc[c] = "idle"
    /\ refreshCalls[c] = 1 /\ netCalls[c] = 1
    /\ lastResp[c] \in WellFormedResponses
    /\ result[c] = Returned(lastResp[c].access_token, NoResponse)
    /\ accessToken = lastResp[c].access_token

\* C3 as claimed: whenever getValidToken() returns a token, the stored
\* expires_at is more than the refresh buffer after the current time, also
\* right after its own refresh, whatever expires_in a well-formed response
\* reports.
C3_ReturnedTokenOutlivesBuffer ==
  [][\A c \in Callers :
       (/\ GetValidTokenCall(c) \/ GetValidTokenResponse(c)
        /\ result'[c].kind = "ok"
        /\ lastResp'[c] \in WellFormedResponses \cup {NoResponse})
       => /\ tokenExpiry'.k = "num"
          /\ tokenExpiry'.v - now' > refreshBuffer]_vars

\* C3 as amended: a token getValidToken() returns without refreshing has a
\* stored expires_at more than the refresh buffer after the current time; a
\* token it returns after its own refresh has expires_at = current time +
\* 1000 * expires_in of the refresh response, which is more than the buffer
\* ahead exactly when the reported expires_in exceeds 300 s.
C3_ReturnedTokenExpiry ==
  [][\A c \in Callers :
       /\ (GetValidTokenCall(c) /\ result'[c].kind = "ok")
          => /\ tokenExpiry'.k = "num"
             /\ tokenExpiry'.v - now' > refreshBuffer
       /\ (/\ GetValidTokenResponse(c)
           /\ result'[c].kind = "ok"
           /\ lastResp'[c] \in WellFormedResponses)
          => /\ tokenExpiry'.k = "num"
             /\ tokenExpiry'.v = now' + 1000 * lastResp'[c].expires_in.v
             /\ (tokenExpiry'.v - now' > refreshBuffer)
                  = (lastResp'[c].expires_in.v > 300)]_vars

C3_Witness ==
  \E c \in Callers :
    /\ op[c] = "getValidToken" /\ pc[c] = "idle"
    /\ result[c].kind = "ok"
    /\ refreshCalls[c] = 1
    /\ lastResp[c] \in WellFormedResponses
    /\ lastResp[c].expires_in.v <= 300
    /\ result[c].token = accessToken
    /\ tokenExpiry.k = "num"
    /\ tokenExpiry.v - now <= refreshBuffer

\* C4: when TokenState is absent, getValidToken() fails with the
\* not-authenticated error, sends no request, calls no refresh and leaves
\* TokenState absent.
C4_AbsentTokenNotAuthenticated ==
  [][\A c \in Callers :
       (GetValidTokenCall(c) /\ TokenStateAbsent)
       => /\ pc'[c] = "idle"
          /\ result'[c] = Thrown(Err("Not authenticated"))
          /\ refreshCalls'[c] = 0
          /\ netCalls'[c] = 0
          /\ inflight' = inflight
          /\ UNCHANGED tokenVars]_vars

\* reached after another caller's failed refresh has cleared the tokens
C4_Witness ==
  \E c, d \in Callers :
    /\ op[c] = "getValidToken" /\ pc[c] = "idle"
    /\ result[c] = Thrown(Err("Not authenticated"))
    /\ netCalls[c] = 0
    /\ TokenStateAbsent
    /\ op[d] = "refreshAccessToken" /\ pc[d] = "idle"
    /\ FailedResponse(lastResp[d]) /\ lastResp[d] # NoResponse

\* C5: with a single caller, a refresh whose request fails (error status,
\* transport failure, unparseable body) clears TokenState and ends with the
\* request's error; an absent TokenState stays absent, isAuthenticated() false
\* and getValidToken() failing not-authenticated, through every step but a
\* successful authenticate().
C5_FailedRefreshClearsUntilAuthenticate ==
  [][/\ \A c \in Callers :
          ((RefreshResponse(c) \/ GetValidTokenResponse(c))
             /\ FailedResponse(lastResp'[c]))
          => /\ TokenStateAbsent'
             /\ ~isAuthenticated'
             /\ result'[c].kind = "err"
             /\ result'[c].err.msg \in RequestErrors
     /\ (TokenStateAbsent
           /\ ~\E c \in Callers :
                 AuthenticateResponse(c) /\ result'[c].kind = "ok")
          => /\ TokenStateAbsent'
             /\ ~isAuthenticated'
             /\ \A c \in Callers :
                  GetValidTokenCall(c)
                  => result'[c] = Thrown(Err("Not authenticated"))]_vars

C5_Witness ==
  /\ op[SingleCaller] \in {"refreshAccessToken", "getValidToken"}
  /\ pc[SingleCaller] = "idle"
  /\ netCalls[SingleCaller] = 1
  /\ FailedResponse(lastResp[SingleCaller])
  /\ result[SingleCaller].kind = "err"
  /\ TokenStateAbsent

\* C6: refresh() called while no refresh token is stored fails with the
\* no-refresh-token error, sends no request and leaves TokenState unchanged.
C6_RefreshWithoutTokenFails ==
  [][\A c \in Callers :
       (RefreshCall(c) /\ refreshToken \in {Null, Undefined})
       => /\ pc'[c] = "idle"
          /\ result'[c] = Thrown(Err("No refresh token available"))
          /\ netCalls'[c] = 0
          /\ inflight' = inflight
          /\ UNCHANGED tokenVars]_vars

\* reached after another caller's failed refresh has cleared the tokens
C6_Witness ==
  \E c, d \in Callers :
    /\ op[c] = "refreshAccessToken" /\ pc[c] = "idle"
    /\ result[c] = Thrown(Err("No refresh token available"))
    /\ netCalls[c] = 0
    /\ TokenStateAbsent
    /\ op[d] = "getValidToken" /\ pc[d] = "idle"
    /\ FailedResponse(lastResp[d]) /\ lastResp[d] # NoResponse

C8_FailedAuthenticateKeepsState ==
  [][\A c \in Callers :
       (AuthenticateResponse(c)
          /\ (FailedResponse(lastResp'[c]) \/ result'[c].kind = "err"))
       => /\ result'[c].kind = "err"
          /\ UNCHANGED tokenVars]_vars

C8_Witness ==
  \E c \in Callers :
    /\ op[c] = "authenticate" /\ pc[c] = "idle"
    /\ FailedResponse(lastResp[c])
    /\ result[c].kind = "err"
    /\ TokenStatePresent

\* C9 as claimed: an authenticate() whose 2xx response parses as JSON but
\* lacks fields of the token shape fails and leaves TokenState unmodified.
C9_MalformedBodyRejected ==
  [][\A c \in Callers :
       (AuthenticateResponse(c) /\ lastResp'[c] \in MalformedResponses)
       => /\ result'[c].kind = "err"
          /\ UNCHANGED tokenVars]_vars

\* C10 as claimed: isAuthenticated() is true exactly when a TokenState is
\* present, and false exactly when getValidToken() would fail with the
\* not-authenticated error.
C10_IsAuthenticatedIffPresent ==
  /\ isAuthenticated <=> ~TokenStateAbsent
  /\ ~isAuthenticated <=> notAuthenticated

\* C11 as claimed: in every reachable state the three token fields are
\* either all unset (null, undefined or no number) or all set.
C11_TokenStateAllOrNothing ==
  \/ TokenStatePresent
  \/ /\ accessToken \in {Null, Undefined}
     /\ refreshToken \in {Null, Undefined}
     /\ tokenExpiry.k # "num"

\* ---------------------------------------------------- claims on request()
\* what a call's log shows: the statuses its GETs were answered with, the
\* refreshes it started, the GETs it issued, the sleeps it took, the tokens
\* it was issued, and its traffic with the data endpoint
Statuses(lg) == SelectSeq(lg, LAMBDA e : e[1] = "status")
Refreshes(lg) == SelectSeq(lg, LAMBDA e : e[1] \in {"refresh", "tokenRefresh"})
Gets(lg) == SelectSeq(lg, LAMBDA e : e[1] = "GET")
Sleeps(lg) == SelectSeq(lg, LAMBDA e : e[1] = "sleep")
TokensIssued(lg) == SelectSeq(lg, LAMBDA e : e[1] = "token")
Exchanges(lg) == SelectSeq(lg, LAMBDA e : e[1] \in {"GET", "status", "sleep"})

\* a request() that started with a fresh token has ended after its GETs
\* were answered 401 and then 200 with a JSON body
UnauthorizedThenOk(c) ==
  /\ op[c] = "request" /\ pc[c] = "idle"
  /\ call[c].fresh
  /\ Statuses(log[c]) = <<<<"status", 401>>, <<"status", 200>>>>
  /\ call[c].lastData.json = "object"

\* C12 as claimed: with a fresh token and the answers 401 then 200,
\* request() performs exactly one refresh and two GETs, in the order GET,
\* refresh, GET, and returns the payload of the 200 response.
C12_OneRefreshTwoGets ==
  \A c \in Callers :
    UnauthorizedThenOk(c)
    => /\ Len(Refreshes(log[c])) = 1
       /\ refreshCalls[c] = 1
       /\ Len(Gets(log[c])) = 2
       /\ result[c].kind = "ok"
       /\ call[c].data = call[c].lastData.payload

\* C12 amended: the same holds when the token issued by the refresh outlives
\* the refresh buffer (expires_in > 300 s); the events of the call are then
\* exactly GET, 401, refresh, token, GET, 200.  (A refreshed token inside the
\* buffer makes getValidToken() refresh once more before the second GET.)
C12_OneRefreshTwoGetsLongToken ==
  \A c \in Callers :
    (/\ UnauthorizedThenOk(c)
     /\ \A i \in DOMAIN TokensIssued(log[c]) :
          TokensIssued(log[c])[i][2] * 1000 > refreshBuffer)
    => /\ \E ei \in ExpiresInSeconds :
            log[c] = << <<"GET", 0>>, <<"status", 401>>, <<"refresh", 0>>,
                        <<"token", ei>>, <<"GET", 1>>, <<"status", 200>> >>
       /\ refreshCalls[c] = 1
       /\ result[c].kind = "ok"
       /\ call[c].data = call[c].lastData.payload
       /\ call[c].data \in Payloads

C12_Witness ==
  /\ UnauthorizedThenOk(SingleCaller)
  /\ refreshCalls[SingleCaller] = 1
  /\ call[SingleCaller].data \in Payloads
  /\ result[SingleCaller].kind = "ok"

\* a request() has ended after its GETs were answered 429 and then 200 with
\* a JSON body
RateLimitedThenOk(c) ==
  /\ op[c] = "request" /\ pc[c] = "idle"
  /\ Statuses(log[c]) = <<<<"status", 429>>, <<"status", 200>>>>
  /\ call[c].lastData.json = "object"

\* C13: a 429 answer at attempt a starts a sleep of Retry-After seconds if
\* the response carries the header and of 2^a seconds otherwise; the sleep
\* ends no earlier than that and the next attempt follows it; a call answered
\* 429 (Retry-After: 2 at attempt 0 sleeps 2000 ms) and then 200 has slept
\* once, between its two GETs, and returns the payload of the 200 response.
C13_RateLimitWait ==
  /\ [][\A c \in Callers :
          /\ (RequestDataResponse(c) /\ call'[c].lastData.status = 429)
             => LET a == call[c].attempt
                    ra == call'[c].lastData.retryAfter
                    ms == IF ra = NoHeader THEN (2 ^ a) * 1000 ELSE ra.v * 1000
                IN /\ pc'[c] = "request:sleep"
                   /\ call'[c].sleptAt = now
                   /\ call'[c].wakeAt = now + ms
                   /\ log'[c] = log[c] \o <<<<"status", 429>>, <<"sleep", ms>>>>
                   /\ call'[c].attempt = a
          /\ SleepDone(c)
             => /\ now - call[c].sleptAt >= log[c][Len(log[c])][2]
                /\ call'[c].attempt = call[c].attempt + 1]_vars
  /\ [](\A c \in Callers :
          RateLimitedThenOk(c)
          => /\ Len(Gets(log[c])) = 2
             /\ Len(Sleeps(log[c])) = 1
             /\ Exchanges(log[c]) \in
                  {<< <<"GET", 0>>, <<"status", 429>>, <<"sleep", ms>>,
                      <<"GET", 1>>, <<"status", 200>> >> : ms \in {1000, 2000}}
             /\ result[c].kind = "ok"
             /\ call[c].data = call[c].lastData.payload
             /\ call[c].data \in Payloads)

C13_Witness ==
  /\ RateLimitedThenOk(SingleCaller)
  /\ Sleeps(log[SingleCaller]) = <<<<"sleep", 2000>>>>
  /\ result[SingleCaller].kind = "ok"
  /\ call[SingleCaller].data \in Payloads

\* a request() with maxRetries = 3 has ended after three GETs answered 500
ThreeServerErrors(c) ==
  /\ op[c] = "request" /\ pc[c] = "idle"
  /\ call[c].maxRetries = 3
  /\ Statuses(log[c]) = <<<<"status", 500>>, <<"status", 500>>, <<"status", 500>>>>

\* C14: an answer with status >= 500 at attempt a starts a sleep of exactly
\* 2^a * 1000 ms followed by attempt a + 1 when a < maxRetries - 1, and
\* otherwise ends request() at once with that error and no sleep; a call with
\* maxRetries = 3 answered 500 three times issues exactly three GETs, sleeps
\* 1000 ms and then 2000 ms, and fails with the 500 error.
C14_ServerErrorBackoff ==
  /\ [][\A c \in Callers :
          (RequestDataResponse(c) /\ call'[c].lastData.net = "ok"
                                  /\ call'[c].lastData.status >= 500)
          => LET a == call[c].attempt
                 st == call'[c].lastData.status
             IN IF a < call[c].maxRetries - 1
                THEN /\ pc'[c] = "request:sleep"
                     /\ call'[c].sleptAt = now
                     /\ call'[c].wakeAt = now + (2 ^ a) * 1000
                     /\ call'[c].attempt = a
                     /\ log'[c] = log[c] \o <<<<"status", st>>,
                                              <<"sleep", (2 ^ a) * 1000>>>>
                ELSE /\ pc'[c] = "idle"
                     /\ result'[c] = Thrown(DataErr("HTTP", st, NoHeader))
                     /\ log'[c] = Append(log[c], <<"status", st>>)]_vars
  /\ [](\A c \in Callers :
          ThreeServerErrors(c)
          => /\ Exchanges(log[c]) =
                  << <<"GET", 0>>, <<"status", 500>>, <<"sleep", 1000>>,
                     <<"GET", 1>>, <<"status", 500>>, <<"sleep", 2000>>,
                     <<"GET", 2>>, <<"status", 500>> >>
             /\ result[c] = Thrown(DataErr("HTTP", 500, NoHeader)))

C14_Witness ==
  /\ ThreeServerErrors(SingleCaller)
  /\ Len(Gets(log[SingleCaller])) = 3
  /\ Len(Sleeps(log[SingleCaller])) = 2
  /\ result[SingleCaller].kind = "err"

\* the answers outside the classes 2xx-with-JSON, 401, 429 and >= 500, with
\* the error makeHttpsRequest rejects with
OtherError(resp) ==
  CASE resp.net = "error" -> DataErr("Request failed", 0, NoHeader)
    [] resp.net = "ok" /\ resp.status \in 200..299 /\ resp.json = "invalid" ->
         DataErr("Failed to parse JSON", 0, NoHeader)
    [] resp.net = "ok" /\ resp.status \notin 200..299
         /\ resp.status \notin {401, 429} /\ resp.status < 500 ->
         DataErr("HTTP", resp.status, resp.retryAfter)
    [] OTHER -> NoErr

\* C15: a GET answered by a status outside 2xx, 401, 429 and >= 500, by a
\* transport failure or by a 2xx body that is not JSON ends request() at that
\* step with that error: no sleep, no refresh, no further GET, token fields
\* and cache untouched, whatever attempts remain.
C15_OtherErrorsEndRequest ==
  [][\A c \in Callers :
       (RequestDataResponse(c) /\ OtherError(call'[c].lastData) # NoErr)
       => /\ pc'[c] = "idle"
          /\ result'[c] = Thrown(OtherError(call'[c].lastData))
          /\ log'[c] = Append(log[c], <<"status", call'[c].lastData.status>>)
          /\ refreshCalls'[c] = refreshCalls[c]
          /\ netCalls'[c] = netCalls[c]
          /\ inflight'[c] = NoRequest
          /\ get'[c] = NoGet
          /\ call'[c].attempt = call[c].attempt
          /\ UNCHANGED <<tokenVars, cache, cacheExpiry>>]_vars

C15_Witness ==
  /\ op[SingleCaller] = "request" /\ pc[SingleCaller] = "idle"
  /\ call[SingleCaller].maxRetries = DefaultMaxRetries
  /\ call[SingleCaller].attempt = 0
  /\ Exchanges(log[SingleCaller]) = << <<"GET", 0>>, <<"status", 404>> >>
  /\ result[SingleCaller] = Thrown(DataErr("HTTP", 404, NoHeader))

\* C16: when getValidToken() fails at the start of an attempt of request(),
\* either because no token is held or because the refresh it triggered
\* failed, request() ends at that step with that error: no GET for the
\* attempt, no sleep, no later attempt.
C16_AuthErrorEndsRequest ==
  [][\A c \in Callers :
       /\ (RequestCall(c) /\ notAuthenticated /\ call'[c].maxRetries > 0)
          => /\ pc'[c] = "idle"
             /\ result'[c] = Thrown(Err("Not authenticated"))
             /\ log'[c] = <<>>
             /\ netCalls'[c] = 0
             /\ get'[c] = NoGet
       /\ (RequestTokenResponse(c) /\ refreshOutcome(lastResp'[c]).kind # "ok")
          => /\ pc'[c] = "idle"
             /\ result'[c] = Thrown(refreshOutcome(lastResp'[c]).err)
             /\ log'[c] = Append(log[c], <<"token", -1>>)
             /\ netCalls'[c] = netCalls[c]
             /\ call'[c].attempt = call[c].attempt
             /\ get'[c] = NoGet]_vars

C16_Witness ==
  /\ op[SingleCaller] = "request" /\ pc[SingleCaller] = "idle"
  /\ call[SingleCaller].attempt = 1
  /\ call[SingleCaller].maxRetries = DefaultMaxRetries
  /\ Len(log[SingleCaller]) > 2
  /\ SubSeq(log[SingleCaller], Len(log[SingleCaller]) - 1, Len(log[SingleCaller]))
       = << <<"tokenRefresh", 1>>, <<"token", -1>> >>
  /\ Len(Gets(log[SingleCaller])) = 1
  /\ result[SingleCaller].kind = "err"
  /\ result[SingleCaller].err.statusCode = UndefinedNum

\* a later request() finds no token and fails before any GET
C16_WitnessNotAuthenticated ==
  /\ op[SingleCaller] = "request" /\ pc[SingleCaller] = "idle"
  /\ call[SingleCaller].maxRetries = DefaultMaxRetries
  /\ result[SingleCaller] = Thrown(Err("Not authenticated"))
  /\ log[SingleCaller] = <<>>

\* the error makeHttpsRequest rejects with for a non-2xx answer
StatusError(resp) == DataErr("HTTP", resp.status, resp.retryAfter)

\* a request() with maxRetries = 3 has ended after its GETs were answered
\* 500, 500 and 429
ServerErrorsThenRateLimit(c) ==
  /\ op[c] = "request" /\ pc[c] = "idle"
  /\ call[c].maxRetries = 3
  /\ Statuses(log[c]) = <<<<"status", 500>>, <<"status", 500>>, <<"status", 429>>>>

\* C17: when the loop of request() ends because the last permitted attempt
\* was answered 429 (after its sleep) or 401 (after its refresh), request()
\* throws the error of that last attempt, status code, message and header
\* unchanged, and issues no further GET; a call with maxRetries = 3 answered
\* 500, 500, 429 fails with the 429 error.
C17_LastErrorRaised ==
  /\ [][\A c \in Callers :
          /\ (SleepDone(c) /\ call[c].attempt + 1 >= call[c].maxRetries)
             => /\ pc'[c] = "idle"
                /\ result'[c] = Thrown(StatusError(call[c].lastData))
                /\ log'[c] = log[c]
                /\ get'[c] = NoGet
          /\ (/\ RequestRefreshResponse(c)
              /\ refreshOutcome(lastResp'[c]).kind = "ok"
              /\ call[c].attempt + 1 >= call[c].maxRetries)
             => /\ pc'[c] = "idle"
                /\ result'[c] = Thrown(StatusError(call[c].lastData))
                /\ call[c].lastData.status = 401
                /\ Gets(log'[c]) = Gets(log[c])
                /\ get'[c] = NoGet]_vars
  /\ [](\A c \in Callers :
          ServerErrorsThenRateLimit(c)
          => /\ result[c].kind = "err"
             /\ result[c].err.statusCode = Num(429)
             /\ result[c].err = StatusError(call[c].lastData)
             /\ Len(Gets(log[c])) = 3)

C17_Witness ==
  /\ ServerErrorsThenRateLimit(SingleCaller)
  /\ result[SingleCaller] = Thrown(DataErr("HTTP", 429, Seconds(2)))
  /\ Len(Sleeps(log[SingleCaller])) = 3

\* ----------------------------------------------- claims on cachedRequest()
\* the errors getValidToken() throws before anything is sent
TokenErrors == {Err("Not authenticated"), Err("No refresh token available")}

\* caller c's last call was a cachedRequest(e, ..) that fetched and returned
FetchedAndReturned(c, e) ==
  /\ op[c] = "cachedRequest" /\ pc[c] = "idle"
  /\ call[c].endpoint = e
  /\ result[c].kind = "ok"
  /\ Len(Gets(log[c])) > 0

\* C18: a cachedRequest(e, ..) that follows a cachedRequest(e, ..) which
\* fetched and stored its result, and that starts before the entry's expiry,
\* returns at once the payload the first call returned and sends nothing:
\* the fetch of the first call is the only one.
C18_SecondCallServedFromCache ==
  [][\A c \in Callers : \A e \in Endpoints :
       (/\ FetchedAndReturned(c, e)
        /\ e \in DOMAIN cacheExpiry /\ now < cacheExpiry[e]
        /\ CachedRequestCall(c) /\ call'[c].endpoint = e)
       => /\ pc'[c] = "idle"
          /\ result'[c].kind = "ok"
          /\ call'[c].data = call[c].data
          /\ call'[c].data \in Payloads
          /\ log'[c] = <<>>
          /\ netCalls'[c] = 0
          /\ get'[c] = NoGet /\ inflight'[c] = NoRequest]_vars

C18_Witness ==
  /\ op[SingleCaller] = "cachedRequest" /\ pc[SingleCaller] = "idle"
  /\ result[SingleCaller].kind = "ok"
  /\ log[SingleCaller] = <<>>
  /\ netCalls[SingleCaller] = 0
  /\ call[SingleCaller].endpoint \in DOMAIN cache
  /\ call[SingleCaller].data = cache[call[SingleCaller].endpoint]
  /\ now < cacheExpiry[call[SingleCaller].endpoint]

\* C19: a cachedRequest(e, ttl) that starts when now >= the expiry of the
\* entry for e is a miss: nothing is served from the cache and request(e)
\* starts; when that fetch succeeds, the payload of e becomes the fetched one
\* and the expiry of e becomes the start time of the call plus ttl, later
\* than the expiry it replaces.
C19_ExpiredEntryRefetched ==
  [][\A c \in Callers : \A e \in Endpoints :
       /\ (/\ e \in DOMAIN cache /\ now >= cacheExpiry[e]
           /\ CachedRequestCall(c) /\ call'[c].endpoint = e)
          => /\ UNCHANGED <<cache, cacheExpiry>>
             /\ \/ /\ pc'[c] \in {"request:get", "request:getValidToken"}
                   /\ netCalls'[c] = 1
                   /\ call'[c].now0 = now
                \/ /\ pc'[c] = "idle"
                   /\ result'[c].kind = "err"
                   /\ result'[c].err \in TokenErrors
                   /\ netCalls'[c] = 0
       /\ (/\ op[c] = "cachedRequest" /\ call[c].endpoint = e
           /\ RequestDataResponse(c) /\ result'[c].kind = "ok")
          => /\ cache'[e] = call'[c].lastData.payload
             /\ cache'[e] = call'[c].data
             /\ cacheExpiry'[e] = call[c].now0 + call[c].ttl
             /\ e \in DOMAIN cacheExpiry
                => /\ call[c].now0 >= cacheExpiry[e]
                   /\ cacheExpiry'[e] > cacheExpiry[e]]_vars

C19_Witness ==
  /\ FetchedAndReturned(SingleCaller, call[SingleCaller].endpoint)
  /\ log[SingleCaller][Len(log[SingleCaller])] = <<"store", 1>>
  /\ cache[call[SingleCaller].endpoint] = call[SingleCaller].data
  /\ cacheExpiry[call[SingleCaller].endpoint] > now

\* C20: a cachedRequest(e, ..) that starts while the entry for e exists and
\* now < its expiry returns the cached payload in that step and does nothing
\* else: no GET, no token request, no call of the token manager, cache and
\* token fields unchanged; the token fields are not even read, so this holds
\* with no token held and with an expired token.
C20_HitHasNoSideEffect ==
  [][\A c \in Callers : \A e \in Endpoints :
       (/\ e \in DOMAIN cache /\ e \in DOMAIN cacheExpiry
        /\ now < cacheExpiry[e]
        /\ CachedRequestCall(c) /\ call'[c].endpoint = e)
       => /\ pc'[c] = "idle"
          /\ result'[c].kind = "ok"
          /\ call'[c].data = cache[e]
          /\ log'[c] = <<>>
          /\ netCalls'[c] = 0 /\ refreshCalls'[c] = 0
          /\ get'[c] = NoGet /\ inflight'[c] = NoRequest
          /\ UNCHANGED <<tokenVars, cache, cacheExpiry, now>>]_vars

C20_Witness ==
  /\ op[SingleCaller] = "cachedRequest" /\ pc[SingleCaller] = "idle"
  /\ notAuthenticated
  /\ result[SingleCaller].kind = "ok"
  /\ log[SingleCaller] = <<>>
  /\ call[SingleCaller].data \in Payloads
  /\ call[SingleCaller].endpoint \in DOMAIN cache
  /\ call[SingleCaller].data = cache[call[SingleCaller].endpoint]

\* caller c's last call was a cachedRequest(e, ..) that failed
FetchFailed(c, e) ==
  /\ op[c] = "cachedRequest" /\ pc[c] = "idle"
  /\ call[c].endpoint = e
  /\ result[c].kind = "err"

\* C21: the step in which a cachedRequest(e, ..) fails changes neither the
\* payload map nor the expiry map, so no entry for e is created and an
\* expired entry for e keeps its payload and expiry; after the failure the
\* entry for e is still absent or expired, and the next cachedRequest(e, ..)
\* is a miss that calls request(e) again (which sends its first request at
\* once, or fails on the token checks of getValidToken()).
C21_FailedFetchKeepsCache ==
  /\ [][\A c \in Callers :
          /\ (/\ \/ CachedRequestCall(c) \/ RequestTokenResponse(c)
                 \/ RequestDataResponse(c) \/ SleepDone(c)
              /\ op'[c] = "cachedRequest" /\ result'[c].kind = "err")
             => UNCHANGED <<cache, cacheExpiry>>
          /\ \A e \in Endpoints :
               (FetchFailed(c, e) /\ CachedRequestCall(c) /\ call'[c].endpoint = e)
               => /\ UNCHANGED <<cache, cacheExpiry>>
                  /\ \/ /\ pc'[c] \in {"request:get", "request:getValidToken"}
                        /\ netCalls'[c] = 1
                     \/ /\ pc'[c] = "idle"
                        /\ result'[c].kind = "err"
                        /\ result'[c].err \in TokenErrors
                        /\ netCalls'[c] = 0]_vars
  /\ [](\A c \in Callers : \A e \in Endpoints :
          FetchFailed(c, e) => ~cacheHit(e))

C21_Witness ==
  /\ FetchFailed(SingleCaller, call[SingleCaller].endpoint)
  /\ Len(Gets(log[SingleCaller])) > 0
  /\ call[SingleCaller].endpoint \in DOMAIN cache
  /\ cache[call[SingleCaller].endpoint] \in Payloads
  /\ cacheExpiry[call[SingleCaller].endpoint] <= now

\* C22: clearCache() leaves both maps empty whatever they held, and it can
\* run in every state; a cachedRequest(e, ..) that starts in the state
\* clearCache() leaves is never served from the cache: it calls request(e),
\* which sends its first request at once when a token is held and fails on
\* the token checks of getValidToken() otherwise.
C22_ClearCacheForcesFetch ==
  /\ [][/\ ClearCache => (cache' = EmptyMap /\ cacheExpiry' = EmptyMap)
        /\ \A c \in Callers :
             (/\ cache = EmptyMap /\ cacheExpiry = EmptyMap
              /\ CachedRequestCall(c))
             => /\ call'[c].data = Undefined
                /\ \/ /\ pc'[c] \in {"request:get", "request:getValidToken"}
                      /\ netCalls'[c] = 1
                      /\ ~notAuthenticated
                   \/ /\ pc'[c] = "idle"
                      /\ notAuthenticated \/ (needsRefresh /\ noRefreshToken)
                      /\ result'[c].kind = "err"
                      /\ result'[c].err \in TokenErrors
                      /\ netCalls'[c] = 0]_vars
  /\ [](ENABLED ClearCache)

\* a cachedRequest that started on the emptied cache has its GET in flight
C22_Witness ==
  /\ op[SingleCaller] = "cachedRequest"
  /\ pc[SingleCaller] = "request:get"
  /\ get[SingleCaller].endpoint = call[SingleCaller].endpoint
  /\ cache = EmptyMap /\ cacheExpiry = EmptyMap
  /\ now > StartMs

\* caller c's last call was a request() that failed after at least one
\* attempt got past the token checks of getValidToken(): a token was held
\* when the call started
FailedRequest(c) ==
  /\ op[c] = "request" /\ pc[c] = "idle"
  /\ result[c].kind = "err"
  /\ Len(log[c]) > 0

\* C23 as claimed: request() never modifies the cache, and a request() that
\* started with TokenState present and fails leaves TokenState present,
\* unless a refresh attempted during the call failed.
C23_FailedRequestKeepsClient ==
  /\ [][\A c \in Callers :
          (/\ \/ RequestCall(c) \/ RequestTokenResponse(c)
              \/ RequestDataResponse(c) \/ RequestRefreshResponse(c)
              \/ SleepDone(c)
           /\ op'[c] = "request")
          => UNCHANGED <<cache, cacheExpiry>>]_vars
  /\ [](\A c \in Callers :
          (/\ FailedRequest(c)
           /\ \A i \in DOMAIN log[c] : log[c][i] # <<"token", -1>>)
          => TokenStatePresent)

\* a request() has ended after all its GETs were answered 401, each 401 was
\* followed by a refresh request, and every refresh stored a token
AllUnauthorized(c) ==
  /\ op[c] = "request" /\ pc[c] = "idle"
  /\ Len(Statuses(log[c])) > 0
  /\ \A i \in DOMAIN Statuses(log[c]) : Statuses(log[c])[i] = <<"status", 401>>
  /\ Len(SelectSeq(log[c], LAMBDA e : e[1] = "refresh"))
       = Len(Statuses(log[c]))
  /\ \A i \in DOMAIN TokensIssued(log[c]) : TokensIssued(log[c])[i][2] > 0

\* C24: a GET answered 401 calls refreshAccessToken() once in the same
\* attempt (it sends the refresh request if a refresh token is held); when the
\* refresh succeeds the attempt counter, the one 429 and 5xx answers use,
\* goes up by one, and with no attempt left request() throws the 401 error
\* without another GET; a call never issues more than maxRetries GETs, and a
\* call whose GETs were all answered 401 (refreshes succeeding) has issued
\* exactly maxRetries GETs and fails with the 401 error.
C24_UnauthorizedUsesAttempt ==
  /\ [][\A c \in Callers :
          /\ (RequestDataResponse(c) /\ call'[c].lastData.status = 401)
             => /\ refreshCalls'[c] = refreshCalls[c] + 1
                /\ call'[c].attempt = call[c].attempt
                /\ IF noRefreshToken
                   THEN /\ pc'[c] = "idle"
                        /\ result'[c] = Thrown(Err("No refresh token available"))
                   ELSE /\ pc'[c] = "request:refresh"
                        /\ log'[c] = log[c] \o <<<<"status", 401>>,
                                                 <<"refresh", call[c].attempt>>>>
          /\ (/\ RequestRefreshResponse(c)
              /\ refreshOutcome(lastResp'[c]).kind = "ok")
             => /\ call'[c].attempt = call[c].attempt + 1
                /\ call[c].attempt + 1 >= call[c].maxRetries
                   => /\ pc'[c] = "idle"
                      /\ result'[c] = Thrown(DataErr("HTTP", 401, NoHeader))
                      /\ Gets(log'[c]) = Gets(log[c])]_vars
  /\ [](\A c \in Callers :
          /\ op[c] = "request" => Len(Gets(log[c])) <= call[c].maxRetries
          /\ AllUnauthorized(c)
             => /\ Len(Gets(log[c])) = call[c].maxRetries
                /\ Len(SelectSeq(log[c], LAMBDA e : e[1] = "refresh"))
                     = call[c].maxRetries
                /\ result[c] = Thrown(DataErr("HTTP", 401, NoHeader)))

C24_Witness ==
  /\ AllUnauthorized(SingleCaller)
  /\ call[SingleCaller].maxRetries = DefaultMaxRetries
  /\ Len(Gets(log[SingleCaller])) = DefaultMaxRetries
  /\ result[SingleCaller] = Thrown(DataErr("HTTP", 401, NoHeader))

\* C25 as claimed: when the refresh that request() calls after a 401 answer
\* fails, either on its response or because no refresh token is held,
\* request() fails in that step with the refresh error, issues no further
\* GET, and TokenState is absent afterwards.
C25_FailedRefreshEndsRequest ==
  [][\A c \in Callers :
       /\ (/\ RequestRefreshResponse(c)
           /\ refreshOutcome(lastResp'[c]).kind # "ok")
          => /\ pc'[c] = "idle"
             /\ result'[c] = Thrown(refreshOutcome(lastResp'[c]).err)
             /\ result'[c].err.statusCode = UndefinedNum
             /\ Gets(log'[c]) = Gets(log[c])
             /\ get'[c] = NoGet
             /\ TokenStateAbsent'
       /\ (/\ RequestDataResponse(c) /\ call'[c].lastData.status = 401
           /\ noRefreshToken)
          => /\ pc'[c] = "idle"
             /\ result'[c] = Thrown(Err("No refresh token available"))
             /\ Gets(log'[c]) = Gets(log[c])
             /\ get'[c] = NoGet
             /\ TokenStateAbsent']_vars

\* caller c is in the last attempt its maxRetries permits
LastAttempt(c) == call[c].attempt = call[c].maxRetries - 1

\* what C26 says of a status >= 500 and of a 429 in the last attempt: the
\* first ends request() at once without a sleep, the second starts the
\* rate-limit sleep, after which request() throws the 429 error
LastAttemptBackoff(c) ==
  /\ (/\ RequestDataResponse(c) /\ LastAttempt(c)
      /\ call'[c].lastData.net = "ok" /\ call'[c].lastData.status >= 500)
     => /\ pc'[c] = "idle"
        /\ result'[c] = Thrown(StatusError(call'[c].lastData))
        /\ Sleeps(log'[c]) = Sleeps(log[c])
  /\ (/\ RequestDataResponse(c) /\ LastAttempt(c)
      /\ call'[c].lastData.status = 429)
     => /\ pc'[c] = "request:sleep"
        /\ call'[c].wakeAt =
             now + rateLimitSeconds(StatusError(call'[c].lastData),
                                    call[c].attempt) * 1000
  /\ (SleepDone(c) /\ LastAttempt(c))
     => /\ pc'[c] = "idle"
        /\ call[c].lastData.status = 429
        /\ result'[c] = Thrown(StatusError(call[c].lastData))
        /\ Gets(log'[c]) = Gets(log[c])
  /\ (/\ RequestDataResponse(c) /\ LastAttempt(c)
      /\ call'[c].lastData.status = 401)
     => refreshCalls'[c] = refreshCalls[c] + 1

\* C26 as claimed: in the last permitted attempt a status >= 500 fails at
\* once without sleeping, a 429 sleeps and then fails with the 429 error, and
\* a 401 calls refresh, which replaces or clears TokenState, and then fails
\* with the 401 error.
C26_LastAttemptPerClass ==
  [][\A c \in Callers :
       /\ LastAttemptBackoff(c)
       /\ (RequestRefreshResponse(c) /\ LastAttempt(c))
          => /\ pc'[c] = "idle"
             /\ result'[c] = Thrown(DataErr("HTTP", 401, NoHeader))
             /\ \/ TokenStateAbsent'
                \/ accessToken' = lastResp'[c].access_token]_vars

\* C26 amended: the same for status >= 500 and 429; a 401 in the last
\* attempt calls refresh and request() then fails with the 401 error when
\* the refresh succeeded (the response's token fields are stored) and with the
\* refresh error when it failed (TokenState cleared if the refresh request
\* was rejected, untouched if no refresh token was held).
C26_LastAttemptPerClassRefreshError ==
  [][\A c \in Callers :
       /\ LastAttemptBackoff(c)
       /\ (RequestRefreshResponse(c) /\ LastAttempt(c))
          => /\ pc'[c] = "idle"
             /\ Gets(log'[c]) = Gets(log[c])
             /\ IF FailedResponse(lastResp'[c])
                THEN /\ result'[c].kind = "err"
                     /\ result'[c].err.msg \in RequestErrors
                     /\ result'[c].err.statusCode = UndefinedNum
                     /\ TokenStateAbsent'
                ELSE /\ result'[c] = Thrown(DataErr("HTTP", 401, NoHeader))
                     /\ accessToken' = lastResp'[c].access_token
                     /\ refreshToken' = lastResp'[c].refresh_token
       /\ (/\ RequestDataResponse(c) /\ LastAttempt(c)
           /\ call'[c].lastData.status = 401 /\ noRefreshToken)
          => /\ pc'[c] = "idle"
             /\ result'[c] = Thrown(Err("No refresh token available"))
             /\ UNCHANGED tokenVars]_vars

\* the only attempt of a request(e, 1) was answered 401, the refresh
\* succeeded, and request() has failed with the 401 error
C26_Witness ==
  /\ op[SingleCaller] = "request" /\ pc[SingleCaller] = "idle"
  /\ call[SingleCaller].maxRetries = 1
  /\ log[SingleCaller] = << <<"GET", 0>>, <<"status", 401>>, <<"refresh", 0>>,
                            <<"token", 600>> >>
  /\ result[SingleCaller] = Thrown(DataErr("HTTP", 401, NoHeader))
  /\ accessToken = "at2"

\* C27: with every response arriving and every sleep ending, each request()
\* ends; it never issues more than maxRetries GETs, and when it has ended it
\* has either returned the payload of a 2xx answer or failed.
C27_RequestTerminates ==
  /\ \A c \in {SingleCaller} : (pc[c] # "idle") ~> (pc[c] = "idle")
  /\ [](\A c \in Callers :
          op[c] = "request"
          => /\ Len(Gets(log[c])) <= call[c].maxRetries
             /\ Len(Gets(log[c])) <= DefaultMaxRetries
             /\ pc[c] = "idle"
                => \/ /\ result[c].kind = "ok"
                      /\ call[c].lastData.status \in 200..299
                      /\ call[c].data = call[c].lastData.payload
                   \/ result[c].kind = "err")

C27_Witness ==
  /\ op[SingleCaller] = "request" /\ pc[SingleCaller] = "idle"
  /\ call[SingleCaller].maxRetries = DefaultMaxRetries
  /\ Len(Gets(log[SingleCaller])) = DefaultMaxRetries
  /\ Len(Sleeps(log[SingleCaller])) > 0
  /\ Len(Refreshes(log[SingleCaller])) > 0
  /\ result[SingleCaller].kind = "ok"

\* C28: a cachedRequest(e, ttl) miss keeps the time it started at until it
\* ends; the step that stores its result sets the expiry of e to that start
\* time plus ttl, whatever the time of the store; right after the store the
\* entry is a hit exactly when less than ttl has passed since the call
\* started, so a fetch that lasted ttl or longer leaves an entry that is
\* expired from the start; and a later call is served from the entry only
\* while now < that expiry.
C28_ExpiryFromCallStart ==
  /\ [][\A c \in Callers : \A e \in Endpoints :
          /\ (/\ CachedRequestCall(c) /\ call'[c].endpoint = e
              /\ pc'[c] # "idle")
             => /\ call'[c].now0 = now
                /\ call'[c].ttl \in TtlValues
          /\ (/\ op[c] = "cachedRequest" /\ pc[c] # "idle" /\ pc'[c] # "idle")
             => /\ call'[c].now0 = call[c].now0
                /\ call'[c].ttl = call[c].ttl
          /\ (/\ op[c] = "cachedRequest" /\ call[c].endpoint = e
              /\ RequestDataResponse(c) /\ result'[c].kind = "ok")
             => /\ call[c].now0 <= now
                /\ cacheExpiry'[e] = call[c].now0 + call[c].ttl
                /\ cacheHit(e)' = (now < call[c].now0 + call[c].ttl)
                /\ (<<"expired", 1>> = log'[c][Len(log'[c])])
                     = (now >= call[c].now0 + call[c].ttl)
          /\ (/\ CachedRequestCall(c) /\ call'[c].endpoint = e
              /\ pc'[c] = "idle" /\ result'[c].kind = "ok")
             => /\ e \in DOMAIN cacheExpiry
                /\ now < cacheExpiry[e]]_vars
  /\ [](\A c \in Callers : \A e \in Endpoints :
          (/\ FetchedAndReturned(c, e) /\ e \in DOMAIN cache
           /\ log[c][Len(log[c])] = <<"expired", 1>>)
          => ~cacheHit(e))

\* a cachedRequest whose fetch lasted at least ttl has stored its result: the
\* entry is there and has never been a hit
C28_Witness ==
  /\ FetchedAndReturned(SingleCaller, call[SingleCaller].endpoint)
  /\ log[SingleCaller][Len(log[SingleCaller])] = <<"expired", 1>>
  /\ call[SingleCaller].endpoint \in DOMAIN cache
  /\ cache[call[SingleCaller].endpoint] = call[SingleCaller].data
  /\ cacheExpiry[call[SingleCaller].endpoint] <= now

\* C29: in every state, whatever the overlap of cachedRequest() calls with
\* each other and with clearCache(), the payload map and the expiry map have
\* the same keys.
C29_SameKeys ==
  /\ DOMAIN cache = DOMAIN cacheExpiry
  /\ \A e \in Endpoints : (e \in DOMAIN cache) = (e \in DOMAIN cacheExpiry)

\* both endpoints are cached, one caller has just replaced an entry and the
\* other caller's fetch, started before that store, is still in flight
C29_Witness ==
  \E c, d \in Callers :
    /\ c # d
    /\ DOMAIN cache = Endpoints /\ DOMAIN cacheExpiry = Endpoints
    /\ FetchedAndReturned(c, call[c].endpoint)
    /\ log[c][Len(log[c])] = <<"store", 1>>
    /\ op[d] = "cachedRequest" /\ pc[d] = "request:get"
    /\ call[d].now0 < now

\* C30: a step that is not clearCache() removes no key from either map, and
\* keeps payload and expiry of every endpoint other than the one it stores;
\* in particular a cachedRequest(e, ..) that finds the entry of e expired
\* leaves both maps as they are.
C30_NoEviction ==
  [][/\ \/ UNCHANGED <<cache, cacheExpiry>>
        \/ ClearCache
        \/ /\ DOMAIN cache \subseteq DOMAIN cache'
           /\ DOMAIN cacheExpiry \subseteq DOMAIN cacheExpiry'
           /\ \A e \in DOMAIN cache :
                \/ /\ cache'[e] = cache[e]
                   /\ cacheExpiry'[e] = cacheExpiry[e]
                \/ \E c \in Callers :
                     /\ pc[c] = "request:get" /\ call[c].endpoint = e
                     /\ SharedDataResponse(c)
     /\ \A c \in Callers : \A e \in Endpoints :
          (/\ pc[c] = "idle" /\ pc'[c] # "idle"
           /\ e \in DOMAIN cache /\ now >= cacheExpiry[e]
           /\ call'[c].endpoint = e /\ CachedRequestCall(c))
          => /\ pc'[c] = "request:get"
             /\ UNCHANGED <<cache, cacheExpiry>>]_vars

\* a cachedRequest has just started on the expired entry its caller stored
\* earlier (the other caller has made no call): the entry is still there
C30_Witness ==
  \E c, d \in Callers :
    /\ c # d /\ op[d] = "none"
    /\ op[c] = "cachedRequest" /\ pc[c] = "request:get"
    /\ call[c].now0 = now
    /\ call[c].endpoint \in DOMAIN cache
    /\ cacheExpiry[call[c].endpoint] <= now
    /\ DOMAIN cache = Endpoints

\* C31: a step of a caller's cachedRequest(e, ..), be it the call (hit, miss
\* or failure at once) or a later step of it (store or failure), leaves the
\* entry of every endpoint other than e as it was: present or absent as
\* before, with the same payload and the same expiry.
C31_OtherEndpointsUntouched ==
  [][\A c \in Callers : \A e \in Endpoints :
       (/\ <<op[c], result[c], call[c], pc[c]>>
             # <<op'[c], result'[c], call'[c], pc'[c]>>
        /\ op'[c] = "cachedRequest"
        /\ \/ pc[c] = "idle" /\ call'[c].endpoint = e
           \/ pc[c] # "idle" /\ call[c].endpoint = e)
       => \A other \in Endpoints \ {e} :
            /\ (other \in DOMAIN cache) = (other \in DOMAIN cache')
            /\ (other \in DOMAIN cacheExpiry) = (other \in DOMAIN cacheExpiry')
            /\ other \in DOMAIN cache
               => /\ cache'[other] = cache[other]
                  /\ cacheExpiry'[other] = cacheExpiry[other]]_vars

\* a cachedRequest('car/get?car_id=45') has replaced its entry with a payload
\* other than the one cached for 'car/get', which is still there
C31_Witness ==
  \E c \in Callers :
    /\ FetchedAndReturned(c, "car/get?car_id=45")
    /\ log[c][Len(log[c])] = <<"store", 1>>
    /\ DOMAIN cache = Endpoints
    /\ cache["car/get?car_id=45"] = call[c].data
    /\ cache["car/get"] # cache["car/get?car_id=45"]
    /\ cacheExpiry["car/get"] # cacheExpiry["car/get?car_id=45"]

\* C32: nothing makes a getValidToken() wait for a refresh of another call:
\* whenever a caller is idle it can call getValidToken(), and a call that
\* finds a token held and close to its expiry sends a refresh request with
\* the refresh token held, whatever the other callers have in flight; the
\* token fields change only when a response arrives.
C32_NoSingleFlight ==
  /\ [](\A c \in Callers : pc[c] = "idle" => ENABLED GetValidTokenCall(c))
  /\ [][\A c \in Callers :
          (/\ pc[c] = "idle" /\ pc'[c] # "idle"
           /\ ~notAuthenticated /\ needsRefresh /\ ~noRefreshToken
           /\ GetValidTokenCall(c))
          => /\ pc'[c] = "getValidToken"
             /\ inflight'[c] = [grant |-> "refresh_token",
                                refresh_token |-> refreshToken]
             /\ UNCHANGED tokenVars]_vars

\* two getValidToken() calls have found the same token close to its expiry
\* and the refresh requests of both, with the same refresh token, are in
\* flight
C32_Witness ==
  \E c, d \in Callers :
    /\ c # d
    /\ op[c] = "getValidToken" /\ pc[c] = "getValidToken"
    /\ op[d] = "getValidToken" /\ pc[d] = "getValidToken"
    /\ inflight[c].grant = "refresh_token"
    /\ inflight[d] = inflight[c]
    /\ inflight[c].refresh_token = refreshToken
    /\ TokenStatePresent /\ needsRefresh

\* C33: a cachedRequest(e, ..) that starts while another caller's fetch for e
\* is in flight, and finds no live entry for e, does not wait for that fetch:
\* it sends a GET of its own; and every cachedRequest(e, ttl) whose fetch
\* succeeds writes its own payload and its own expiry (its start time plus
\* ttl) over whatever the entry holds, also when the entry was stored by an
\* overlapping call after this one had started, so that the entry is that of
\* the call that completed last.
C33_NoSingleFlightOnFill ==
  [][\A c \in Callers : \A e \in Endpoints :
       /\ (/\ pc[c] = "idle" /\ pc'[c] # "idle"
           /\ call'[c].endpoint = e
           /\ ~cacheHit(e)
           /\ \E d \in Callers \ {c} :
                pc[d] = "request:get" /\ call[d].endpoint = e
           /\ CachedRequestCall(c))
          => /\ pc'[c] = "request:get"
             /\ get'[c].endpoint = e
             /\ netCalls'[c] = 1
             /\ \A d \in Callers \ {c} : get'[d] = get[d] /\ pc'[d] = pc[d]
       /\ (/\ pc[c] = "request:get" /\ pc'[c] = "idle"
           /\ op[c] = "cachedRequest" /\ call[c].endpoint = e
           /\ result'[c].kind = "ok")
          => /\ cache'[e] = call'[c].data
             /\ cache'[e] = call'[c].lastData.payload
             /\ cacheExpiry'[e] = call[c].now0 + call[c].ttl]_vars

\* two overlapping cachedRequest(e, ..) have both fetched; the one that
\* completed last replaced the entry the other had stored after it started,
\* and the entry holds its payload, not the other's
C33_Witness ==
  \E c, d \in Callers : \E e \in Endpoints :
    /\ c # d
    /\ FetchedAndReturned(c, e) /\ FetchedAndReturned(d, e)
    /\ <<"overlap", 1>> = log[c][Len(log[c]) - 1]
    /\ <<"store", 1>> = log[c][Len(log[c])]
    /\ <<"store", 0>> = log[d][Len(log[d])]
    /\ cache[e] = call[c].data
    /\ call[d].data # call[c].data

\* the cache was cleared, entries removed, while the cachedRequest() whose
\* log this is was awaiting its fetch
ClearedMeanwhile(lg) == \E i \in DOMAIN lg : lg[i] = <<"cleared", 1>>

\* C35: clearCache() changes nothing of the calls in progress; a
\* cachedRequest(e, ttl) whose GET was sent before a clearCache() and answered
\* after it stores payload and expiry as if no clear had run; and while that
\* entry is live, a cachedRequest(e, ..) by any caller is a hit that returns
\* this payload without a fetch.
C35_ClearKeepsFillsInFlight ==
  [][/\ ClearCache
        => UNCHANGED <<pc, op, result, inflight, get, call, netCalls>>
     /\ \A c \in Callers : \A e \in Endpoints :
          /\ (/\ pc[c] = "request:get" /\ pc'[c] = "idle"
              /\ op[c] = "cachedRequest" /\ call[c].endpoint = e
              /\ ClearedMeanwhile(log[c])
              /\ result'[c].kind = "ok")
             => /\ e \in DOMAIN cache' /\ e \in DOMAIN cacheExpiry'
                /\ cache'[e] = call'[c].lastData.payload
                /\ cacheExpiry'[e] = call[c].now0 + call[c].ttl
                /\ call[c].now0 + call[c].ttl > now => cacheHit(e)'
          /\ \A d \in Callers :
               (/\ FetchedAndReturned(c, e) /\ ClearedMeanwhile(log[c])
                /\ e \in DOMAIN cache /\ cache[e] = call[c].data
                /\ now < cacheExpiry[e]
                /\ pc[d] = "idle" /\ op'[d] = "cachedRequest"
                /\ call'[d].endpoint = e
                /\ <<result[d], call[d], log[d], op[d]>>
                     # <<result'[d], call'[d], log'[d], op'[d]>>)
               => /\ pc'[d] = "idle"
                  /\ result'[d].kind = "ok"
                  /\ call'[d].data = call[c].data
                  /\ netCalls'[d] = 0 /\ get'[d] = NoGet
                  /\ UNCHANGED <<cache, cacheExpiry>>]_vars

\* a fill that was in flight when the cache was cleared has stored its
\* result: the entry is the only one and is live
C35_Witness ==
  \E c \in Callers : \E e \in Endpoints :
    /\ FetchedAndReturned(c, e)
    /\ ClearedMeanwhile(log[c])
    /\ log[c][Len(log[c])] = <<"store", 0>>
    /\ DOMAIN cache = {e}
    /\ cache[e] = call[c].data
    /\ cacheHit(e)

\* C34 as claimed: a step that takes the token fields from absent to present
\* is the step in which an authenticate() receives its response.
C34_OnlyAuthenticateRestores ==
  [][(TokenStateAbsent /\ TokenStatePresent')
       => \E c \in Callers : pc[c] = "authenticate" /\ pc'[c] = "idle"]_vars

\* C36: the step in which a getValidToken() returns, at once or when the
\* response to its refresh arrives (a failure or a body of the documented
\* shape), returns the access token the token fields hold after that step,
\* and that token is neither null nor undefined, whatever the other callers
\* did to the token fields while the call was pending.
C36_ReturnedTokenIsHeld ==
  [][\A c \in Callers :
       (/\ pc[c] \in {"idle", "getValidToken"} /\ pc'[c] = "idle"
        /\ op'[c] = "getValidToken"
        /\ <<pc[c], op[c], result[c], lastResp[c], netCalls[c]>>
             # <<pc'[c], op'[c], result'[c], lastResp'[c], netCalls'[c]>>
        /\ lastResp'[c] \notin MalformedResponses
        /\ result'[c].kind = "ok")
       => /\ result'[c].token = accessToken'
          /\ accessToken' \notin {Null, Undefined}
          /\ pc[c] = "getValidToken"
             => /\ accessToken' = lastResp'[c].access_token
                /\ TokenStatePresent']_vars

\* a getValidToken() has returned the token its refresh stored, and the
\* refresh inside the getValidToken() of the other caller has failed, which
\* cleared the token fields before that token was stored
C36_Witness ==
  \E c, d \in Callers :
    /\ c # d
    /\ op[c] = "getValidToken" /\ pc[c] = "idle"
    /\ result[c].kind = "ok"
    /\ lastResp[c] \in WellFormedResponses
    /\ result[c].token = accessToken
    /\ TokenStatePresent
    /\ op[d] = "getValidToken" /\ pc[d] = "idle"
    /\ result[d].kind = "err"
    /\ lastResp[d] \in FailureResponses

\* C37 as claimed: a refreshAccessToken() called right after a successful
\* authenticate() and answered with a body of the documented shape stores an
\* expiry that is not earlier than the one authenticate() stored.
C37_RoundTripExtends ==
  [][\A c \in Callers :
       (/\ pc[c] = "refreshAccessToken" /\ pc'[c] = "idle"
        /\ result'[c].kind = "ok"
        /\ lastResp'[c] \in WellFormedResponses
        /\ tokenExpiry.k = "num")
       => /\ tokenExpiry'.k = "num"
          /\ tokenExpiry'.v >= tokenExpiry.v]_vars

\* C37 amended: the refresh is sent with the refresh token authenticate()
\* stored; when it succeeds with a numeric expires_in, the expiry it stores is
\* the time of its response plus 1000 * expires_in, whatever expiry
\* authenticate() stored: it is later than or equal to that one exactly when
\* the new lifetime is at least the lifetime the old token had left.
C37_RoundTripExpiry ==
  [][\A c \in Callers :
       /\ (/\ pc[c] = "idle" /\ pc'[c] = "refreshAccessToken")
          => /\ inflight'[c].refresh_token = refreshToken
             /\ inflight'[c].refresh_token = lastResp[c].refresh_token
       /\ (/\ pc[c] = "refreshAccessToken" /\ pc'[c] = "idle"
           /\ result'[c].kind = "ok"
           /\ lastResp'[c].expires_in.k = "num"
           /\ tokenExpiry.k = "num")
          => /\ tokenExpiry' = Num(now + 1000 * lastResp'[c].expires_in.v)
             /\ (tokenExpiry'.v >= tokenExpiry.v)
                  = (1000 * lastResp'[c].expires_in.v >= tokenExpiry.v - now)]_vars

\* the refresh after an authenticate() has stored a token of 150 seconds at
\* the start time: whatever authenticate() had stored expired no earlier
C37_Witness ==
  /\ op[SingleCaller] = "refreshAccessToken" /\ pc[SingleCaller] = "idle"
  /\ result[SingleCaller].kind = "ok"
  /\ lastResp[SingleCaller] \in WellFormedResponses
  /\ lastResp[SingleCaller].expires_in = Num(150)
  /\ TokenStatePresent
  /\ tokenExpiry = Num(StartMs + 150 * 1000)

\* C38: a request(e, maxRetries) with maxRetries <= 0 ends in the step of the
\* call: no token is asked for (the token fields are not even tested, so no
\* 'Not authenticated'), no refresh and no GET is sent, nothing changes but
\* the caller's own call, and what is thrown is the undefined value lastError
\* was declared with: no message and no status code.
C38_NoAttemptNoError ==
  /\ [][\A c \in Callers :
          (/\ pc[c] = "idle" /\ op'[c] = "request"
           /\ call'[c].maxRetries <= 0
           /\ RequestCall(c))
          => /\ pc'[c] = "idle"
             /\ result'[c] = Thrown(UndefinedErr)
             /\ result'[c].err.msg = Undefined
             /\ result'[c].err.statusCode = UndefinedNum
             /\ log'[c] = <<>>
             /\ netCalls'[c] = 0 /\ refreshCalls'[c] = 0
             /\ get'[c] = NoGet /\ inflight'[c] = NoRequest
             /\ UNCHANGED <<tokenVars, cache, cacheExpiry, now>>]_vars
  /\ [](\A mr \in -2..0 :
          LET plan == AttemptStart(0, mr, UndefinedErr, notAuthenticated,
                                   needsRefresh, noRefreshToken, accessToken)
          IN plan.k = "throw" /\ plan.err = UndefinedErr /\ plan.refreshed = 0)

\* a request(e, 0) made when no token is held has thrown undefined, not
\* 'Not authenticated'
C38_Witness ==
  /\ op[SingleCaller] = "request" /\ pc[SingleCaller] = "idle"
  /\ call[SingleCaller].maxRetries = 0
  /\ result[SingleCaller] = Thrown(UndefinedErr)
  /\ log[SingleCaller] = <<>>
  /\ notAuthenticated

====
